---- MODULE Spec2Model ----
(***************************************************************************)
(* Verification model of AudItecX: the reconciliation engine               *)
(* (src/agents/match_agent.py), the run orchestrator (src/orchestrator.py) *)
(* and the run worker / stream plumbing (src/app.py,                       *)
(* api/services/orchestrator_service.py).                                  *)
(***************************************************************************)
EXTENDS Integers, Sequences, FiniteSets, TLC

VARIABLES
    \* ---- reconciliation ----
    documents,      \* reconcile() argument: list of document dicts
    journal_rows,   \* reconcile() argument: list of ledger row dicts
    rc_result,      \* value returned by reconcile(), or NotCalled
    \* ---- Orchestrator.execute ----
    ex_pc,          \* "idle" | "running" | "completed" | "failed"
    ex_plan,        \* plan_list
    ex_dry_run,     \* dry_run flag
    ex_step,        \* index of the next plan step of the for loop
    ex_context,     \* set of context keys that have been assigned
    ex_trace,       \* handlers dispatched so far, in order
    ex_skipped,     \* plan indices that went through the else branch
    ex_manifests,   \* manifests written to <output_dir>/<run_id>/manifest.json
    ex_raised_at,   \* plan index whose task raised, or 0
    \* ---- run worker, run tables, stream endpoint ----
    RUN_QUEUES,     \* run_id -> queue registered or not
    RUN_RESULTS,    \* set of run_ids with a recorded result
    queue,          \* run_id -> items currently in the queue.Queue
    put_log,        \* run_id -> every item ever put, in order
    w_via,          \* run_id -> what created the run
    w_pc,           \* run_id -> program counter of the worker thread
    w_outcome,      \* run_id -> how orchestrator.execute ended
    w_q,            \* run_id -> queue_obj popped in the finally of orchestrator_service._worker
    w_executes,     \* run_id -> number of orchestrator.execute calls
    notifications,  \* notification log (types, in append order)
    consumers,      \* run_id -> stream generators on the run's queue: reading, ended
    \* ---- run ids (src/app.py _new_run_id, orchestrator_service.new_run_id) ----
    clock,          \* reading of datetime.utcnow(): [second, microsecond]
    issued,         \* runs created so far, in order: [via, run_id]
    \* ---- notification log and its ack endpoint (src/app.py) ----
    nk_log,         \* notifications.json: list of entries [id, type, read]
    nk_last,        \* the last call on the log: its arguments and its response
    \* ---- schedule store and the scheduler API (src/app.py) ----
    sc_now,         \* datetime.now(timezone.utc), at day resolution: <<year, month, day>>
    sc_store,       \* schedules.json: list of schedule dicts
    sc_created,     \* ids of the schedules whose creation was answered 201
    sc_deleted,     \* ids whose deletion was answered 204
    sc_fired,       \* runs the poll started: [schedule id, at, run id]
    sc_last,        \* the last scheduler API call: its request and its response
    \* ---- ledger lookup (src/agents/data_agent.py) ----
    qj_csv,         \* mock_data/journal_entries.csv: absent, or its rows
    qj_identifiers, \* the identifiers passed to query_journal
    qj_result,      \* what query_journal returned
    \* ---- reconcile called twice on the same input (src/agents/match_agent.py) ----
    hash_seed,      \* the interpreter's string hash seed: the order in which a set of these strings is iterated
    rr_documents,   \* the documents list passed to both calls
    rr_rows,        \* the journal_rows list passed to both calls
    rr_first,       \* what the first call returned
    rr_second,      \* what the second call returned
    \* ---- summary synthesis (src/agents/summary_agent.py) ----
    sm_input,       \* the call: generate(matches) or _render_markdown(context)
    sm_result,      \* what the call returned or raised
    \* ---- intent parsing (src/nlu/intent_parser.py) ----
    pi_text,        \* nl_text passed to parse_intent
    pi_use_llm,     \* the use_llm argument
    pi_adapter,     \* llm_adapter: absent, present, or present and raising
    pi_result,      \* what parse_intent returned or raised
    \* ---- task planning (src/agents/planner_agent.py) ----
    pt_parsed_intent, \* parsed_intent passed to plan_tasks
    pt_use_llm,     \* the use_llm argument
    pt_adapter,     \* llm_adapter: absent, present, or present and raising
    pt_result,      \* the plan plan_tasks returned
    \* ---- simulation run (api/features_simulation.py, api/sim_helpers.py) ----
    SIM_STREAMS,    \* SIM_STREAMS[run_id]: the queue object registered for the run id, 0 when none
    sim_created,    \* number of queue objects created so far
    sim_items,      \* per queue object, the items put on it
    sim_pc,         \* position of _simulation_worker
    sim_stage,      \* number of events the worker has emitted
    sim_queue_obj,  \* queue_obj of the worker, 0 before it is assigned
    sim_lists,      \* whether anomalies and policy_violations are non-empty
    sim_trace,      \* what the worker has put and appended, in order
    sim_cleanups,   \* number of cleanup requests served
    sim_reader,     \* the stream_simulation consumer: its queue object, items read, state
    \* ---- stream_summary (src/agents/summary_agent.py) ----
    ss_input,       \* context, use_llm, whether llm_adapter was imported, its USE_MOCK
    ss_pc,          \* position of stream_summary
    ss_stream,      \* the chunks the generator of call_llm has still to yield
    ss_chunks,      \* chunks of the mock streaming loop
    ss_sink,        \* the chunks stream_callback was called with, in order
    ss_result,      \* what stream_summary returned or raised
    \* ---- locks and threads of src/app.py ----
    lk_holder,      \* lock -> the thread holding it, or Free
    lk_prog,        \* thread -> the code it runs, or "none"
    lk_pc,          \* thread -> position of its next instruction
    \* ---- concurrent calls on notifications.json ----
    nr_file,        \* notifications.json as the calls see it: list of entries
    nr_lock,        \* the caller holding NOTIFICATION_LOCK, 0 when free
    nr_call,        \* caller -> its call: kind, id, position, list it loaded
    nr_appended,    \* ids of the entries whose append has returned
    nr_acked,       \* ids marked read by an acknowledgement that has returned
    \* ---- the scheduler poll against the scheduler handlers ----
    sr_file,        \* schedules.json: list of schedules [id, due, fired]
    sr_lock,        \* who holds SCHEDULE_LOCK: "free", "poll" or a caller
    sr_poll,        \* the poll iteration: position and the list it loaded
    sr_call,        \* caller -> its request: kind, id, due, position, list loaded
    sr_created,     \* ids of the schedules whose creation was answered 201
    sr_deleted,     \* ids of the schedules whose deletion was answered 204
    \* ---- DocAgent: parsing one document file ----
    pf_lines,       \* path.read_text().splitlines(): the lines of the file
    pf_decodable,   \* whether the file decodes as UTF-8
    pf_pc,          \* "file" before _parse_file, "parsed" after
    pf_result,      \* what _parse_file returned: [metadata, body]
    \* ---- Packager.create_package ----
    pk_docs,        \* the documents of the matches, in loop order: [filename, found]
    pk_pc,          \* position of the call
    pk_next,        \* index of the next document, file or archive member
    pk_fs,          \* the paths that exist
    pk_zip,         \* the members written to the archive so far
    pk_outcome,     \* "running", "returned" or "raised"
    \* ---- a run fired by the scheduler (_trigger_scheduled_run, _worker) ----
    tg_vendor_id,   \* vendor_id of the schedule that is due
    tg_pc,          \* position of the run: idle, started, executing, done
    tg_parsed,      \* parsed_intent handed to the worker
    tg_plan,        \* plan handed to the worker
    tg_notifications, \* types of the entries appended to notifications.json
    tg_outcome,     \* how the worker ended: none, complete, error, died
    tg_notify_failed  \* _record_run_notifications raised (caught by the worker)

rcVars == <<documents, journal_rows, rc_result>>
exVars == <<ex_pc, ex_plan, ex_dry_run, ex_step, ex_context, ex_trace,
            ex_skipped, ex_manifests, ex_raised_at>>
wkVars == <<RUN_QUEUES, RUN_RESULTS, queue, put_log, w_via, w_pc, w_outcome,
            w_q, w_executes, notifications, consumers>>
idVars == <<clock, issued>>
nkVars == <<nk_log, nk_last>>
scVars == <<sc_now, sc_store, sc_created, sc_deleted, sc_fired, sc_last>>
qjVars == <<qj_csv, qj_identifiers, qj_result>>
rrVars == <<hash_seed, rr_documents, rr_rows, rr_first, rr_second>>
smVars == <<sm_input, sm_result>>
piVars == <<pi_text, pi_use_llm, pi_adapter, pi_result>>
ptVars == <<pt_parsed_intent, pt_use_llm, pt_adapter, pt_result>>
simVars == <<SIM_STREAMS, sim_created, sim_items, sim_pc, sim_stage, sim_queue_obj, sim_lists, sim_trace, sim_cleanups, sim_reader>>
ssVars == <<ss_input, ss_pc, ss_stream, ss_chunks, ss_sink, ss_result>>
lkVars == <<lk_holder, lk_prog, lk_pc>>
nrVars == <<nr_file, nr_lock, nr_call, nr_appended, nr_acked>>
srVars == <<sr_file, sr_lock, sr_poll, sr_call, sr_created, sr_deleted>>
pfVars == <<pf_lines, pf_decodable, pf_pc, pf_result>>
pkVars == <<pk_docs, pk_pc, pk_next, pk_fs, pk_zip, pk_outcome>>
tgVars == <<tg_vendor_id, tg_pc, tg_parsed, tg_plan, tg_notifications, tg_outcome, tg_notify_failed>>
\* the groups of the services around the run pipeline
svVars ==
    <<idVars, nkVars, scVars, qjVars, rrVars, smVars, piVars, ptVars, simVars,
      ssVars, lkVars, nrVars, srVars, pfVars, pkVars, tgVars>>
vars == <<rcVars, exVars, wkVars, svVars>>

(***************************************************************************)
(* Bounds                                                                  *)
(***************************************************************************)
MaxRows == 2
MaxDocs == 2
MaxPlanLen == 2
MaxRuns == 1
MaxConsumers == 1
MaxChunks == 1
MaxSecond == 1
MaxMicro == 1
MaxIds == 2
MaxEntries == 2
MaxAckIds == 2
MaxSchedules == 2
MaxFired == 1
MaxLedgerRows == 2
MaxIdentifiers == 2
MaxPieces == 3
MaxCleanups == 1
MaxRequests == 1
MaxWorkers == 1
MaxCallers == 2
MaxLines == 3

\* range(512) of _determine_next_run
IncrementCap == 512

NotCalled == [called |-> FALSE]
Max(a, b) == IF a >= b THEN a ELSE b
Abs(a) == IF a < 0 THEN 0 - a ELSE a
Indices(s) == 1..Len(s)
Min2(a, b) == IF a <= b THEN a ELSE b

\* max_tokens of call_llm and the floor of the mock's token count
MAX_TOKENS == 512
MIN_TOKENS == 32

(***************************************************************************)
(* Text values.  An identifier is a sequence of characters; str.upper()    *)
(* maps each character.                                                    *)
(***************************************************************************)
UpperChar(c) ==
    CASE c = "v" -> "V"
      [] c = "i" -> "I"
      [] c = "p" -> "P"
      [] c = "e" -> "E"
      [] c = "n" -> "N"
      [] c = "d" -> "D"
      [] c = "o" -> "O"
      [] c = "x" -> "X"
      [] OTHER -> c

Upper(s) == [k \in 1..Len(s) |-> UpperChar(s[k])]

Empty == <<>>
V1 == <<"V", "1">>
v1 == <<"v", "1">>
V2 == <<"V", "2">>
V3 == <<"V", "3">>
I1 == <<"I", "1">>
i1 == <<"i", "1">>
I2 == <<"I", "2">>
I3 == <<"I", "3">>
P1 == <<"P", "1">>

(***************************************************************************)
(* Dates.  A date text is a sequence of the integer fields separated by    *)
(* "-" (<<2025, 1, 10>> is "2025-01-10", <<10, 1, 2025>> is "10-01-2025"), *)
(* the empty sequence is the empty string, <<0>> is text that is no date.  *)
(***************************************************************************)
NoDate == [ok |-> FALSE]

IsLeap(y) == (y % 4 = 0) /\ ((y % 100 # 0) \/ (y % 400 = 0))

DaysInMonth(y, m) ==
    IF m = 2 THEN (IF IsLeap(y) THEN 29 ELSE 28)
    ELSE IF m \in {4, 6, 9, 11} THEN 30 ELSE 31

DaysBeforeMonth(y, m) ==
    LET F[k \in 1..12] == IF k = 1 THEN 0 ELSE F[k - 1] + DaysInMonth(y, k - 1)
    IN F[m]

DaysBeforeYear(y) ==
    365 * (y - 1) + ((y - 1) \div 4) - ((y - 1) \div 100) + ((y - 1) \div 400)

Ordinal(y, m, d) == DaysBeforeYear(y) + DaysBeforeMonth(y, m) + d

\* datetime.strptime(text, fmt) for the fields year, month, day
ValidYMD(y, m, d) ==
    /\ y \in 1000..9999
    /\ m \in 1..12
    /\ d >= 1
    /\ d <= DaysInMonth(y, m)

strptime(y, m, d) ==
    IF ValidYMD(y, m, d) THEN [ok |-> TRUE, ord |-> Ordinal(y, m, d)] ELSE NoDate

\* the first format of ("%Y-%m-%d", "%d-%m-%Y") that parses the text
first_parsed(first, second) == IF first.ok THEN first ELSE second

to_date(value) ==
    IF value = <<>> THEN NoDate
    ELSE IF Len(value) # 3 THEN NoDate
    ELSE first_parsed(strptime(value[1], value[2], value[3]),
                      strptime(value[3], value[2], value[1]))

(***************************************************************************)
(* Amounts are in cents.                                                   *)
(***************************************************************************)
\* tolerance = max(abs(row_amount) * 0.01, 0.5), in hundredths of a cent
Tolerance100(row_amount) == Max(Abs(row_amount), 5000)

IdTokensOf(rec) == {Upper(rec.vendor_id), Upper(rec.invoice_id), Upper(rec.po_id)}

id_result(overlap) ==
    IF overlap # {}
    THEN [ok |-> TRUE, comment |-> [kind |-> "id_match", tokens |-> overlap]]
    ELSE [ok |-> FALSE, comment |-> [kind |-> "none"]]

id_match_mut_empty(row, doc) ==
    id_result({token \in IdTokensOf(doc) : token \in IdTokensOf(row)})

id_match(row, doc) ==
    id_result({token \in IdTokensOf(doc) : token # <<>> /\ token \in IdTokensOf(row)})

\* the comparison delta <= tolerance, tolerance in hundredths of a cent
amount_result(delta, tolerance) ==
    IF 100 * delta <= tolerance
    THEN [ok |-> TRUE, comment |-> [kind |-> "amount_within_tolerance", delta |-> delta]]
    ELSE [ok |-> FALSE, comment |-> [kind |-> "amount_delta_exceeds_tolerance",
                                     delta |-> delta, tolerance100 |-> tolerance]]

amount_within_tolerance(row, doc) ==
    amount_result(Abs(row.amount - doc.amount), Tolerance100(row.amount))

gap_result(gap, window) ==
    IF Abs(gap) <= window
    THEN [ok |-> TRUE, comment |-> [kind |-> "date_within_window"]]
    ELSE [ok |-> FALSE, comment |-> [kind |-> "date_gap_outside_window", gap |-> gap]]

date_result_mut_wide(ledger_date, doc_date) ==
    IF ~ledger_date.ok \/ ~doc_date.ok
    THEN [ok |-> TRUE, comment |-> [kind |-> "date_unavailable"]]
    ELSE gap_result(ledger_date.ord - doc_date.ord, 10)

\* the body of _date_within_window once both dates went through _to_date
date_result(ledger_date, doc_date) ==
    IF ~ledger_date.ok \/ ~doc_date.ok
    THEN [ok |-> TRUE, comment |-> [kind |-> "date_unavailable"]]
    ELSE gap_result(ledger_date.ord - doc_date.ord, 7)

date_within_window(row, doc) ==
    date_result(to_date(row.posting_date), to_date(doc.date))

\* a comment string is truthy unless it is ""
Truthy(comment) == comment.kind # "none"

\* amount_comment or date_comment or "Partial match without clear reason"
anomaly_reason(amount_comment, date_comment) ==
    IF Truthy(amount_comment) THEN amount_comment
    ELSE IF Truthy(date_comment) THEN date_comment
    ELSE [kind |-> "partial_match_without_clear_reason"]

\* the note list [id_comment, amount_comment, date_comment] without empty notes
rationale_parts(id_comment, amount_comment, date_comment) ==
    SelectSeq(<<id_comment, amount_comment, date_comment>>, Truthy)

\* document = None
NoDocument == [filename |-> 0]
NoSupportingDocument == [kind |-> "no_supporting_document_found"]

NothingAppended == [linked |-> <<>>, anomalies |-> <<>>]

classify_mut_or(row, doc, idm, am, dt) ==
    IF ~idm.ok THEN NothingAppended
    ELSE IF am.ok \/ dt.ok
    THEN [linked |-> <<[document |-> doc,
                        rationale |-> rationale_parts(idm.comment, am.comment, dt.comment)]>>,
          anomalies |-> <<>>]
    ELSE [linked |-> <<>>,
          anomalies |-> <<[ledger_entry |-> row, document |-> doc,
                           reason |-> anomaly_reason(am.comment, dt.comment)]>>]

\* body of the inner loop for one (row, doc), given the three checks: what
\* it appends to linked and to anomalies
classify(row, doc, idm, am, dt) ==
    IF ~idm.ok THEN NothingAppended
    ELSE IF am.ok /\ dt.ok
    THEN [linked |-> <<[document |-> doc,
                        rationale |-> rationale_parts(idm.comment, am.comment, dt.comment)]>>,
          anomalies |-> <<>>]
    ELSE [linked |-> <<>>,
          anomalies |-> <<[ledger_entry |-> row, document |-> doc,
                           reason |-> anomaly_reason(am.comment, dt.comment)]>>]

pair_outcome(row, doc) ==
    classify(row, doc, id_match(row, doc), amount_within_tolerance(row, doc),
             date_within_window(row, doc))

\* appends of one iteration followed by the appends of the later ones
then_scan(head, rest) ==
    [linked |-> head.linked \o rest.linked, anomalies |-> head.anomalies \o rest.anomalies]

\* the inner loop "for doc in docs" for one row
RECURSIVE row_scan(_, _, _)
row_scan(row, docs, k) ==
    IF k > Len(docs) THEN NothingAppended
    ELSE then_scan(pair_outcome(row, docs[k]), row_scan(row, docs, k + 1))

row_result_mut_nocand(row, scan) ==
    [matches |-> IF scan.linked # <<>>
                 THEN <<[ledger_entry |-> row, documents |-> scan.linked]>>
                 ELSE <<>>,
     anomalies |-> IF scan.linked = <<>> /\ scan.anomalies = <<>>
                   THEN <<[ledger_entry |-> row, document |-> NoDocument,
                           reason |-> NoSupportingDocument]>>
                   ELSE scan.anomalies]

\* "if linked: ... elif not linked: ..." after the inner loop
row_result(row, scan) ==
    [matches |-> IF scan.linked # <<>>
                 THEN <<[ledger_entry |-> row, documents |-> scan.linked]>>
                 ELSE <<>>,
     anomalies |-> IF scan.linked # <<>>
                   THEN scan.anomalies
                   ELSE scan.anomalies \o
                        <<[ledger_entry |-> row, document |-> NoDocument,
                           reason |-> NoSupportingDocument]>>]

\* one iteration of "for row in rows": appends to matches and anomalies
row_outcome(row, docs) == row_result(row, row_scan(row, docs, 1))

then_rows(head, rest) ==
    [matches |-> head.matches \o rest.matches, anomalies |-> head.anomalies \o rest.anomalies]

RECURSIVE reconcile_from(_, _, _)
reconcile_from(docs, rows, k) ==
    IF k > Len(rows) THEN [matches |-> <<>>, anomalies |-> <<>>]
    ELSE then_rows(row_outcome(rows[k], docs), reconcile_from(docs, rows, k + 1))

returned(out) == [called |-> TRUE, matches |-> out.matches, anomalies |-> out.anomalies]

reconcile(docs, rows) == returned(reconcile_from(docs, rows, 1))

(***************************************************************************)
(* Inputs of the reconciliation check: ledger rows as query_journal builds *)
(* them and documents as find_docs builds them (string identifiers, float  *)
(* amounts, date text).  entry_id and filename are the position in the     *)
(* list, so they are unique.                                               *)
(***************************************************************************)
D_2025_01_10 == <<2025, 1, 10>>
D_2025_01_12 == <<2025, 1, 12>>
D_2025_01_20 == <<2025, 1, 20>>
D_10_01_2025 == <<10, 1, 2025>>
D_20_01_2025 == <<20, 1, 2025>>
D_2025_02_30 == <<2025, 2, 30>>
D_Text == <<0>>
D_Blank == <<>>

Row(v, i, p, a, d) ==
    [entry_id |-> 0, vendor_id |-> v, invoice_id |-> i, po_id |-> p,
     amount |-> a, posting_date |-> d]

Doc(v, i, p, a, d) ==
    [filename |-> 0, vendor_id |-> v, invoice_id |-> i, po_id |-> p,
     amount |-> a, date |-> d]

RowPool ==
    { Row(V1, I1, Empty, 100000, D_2025_01_10),
      Row(v1, Empty, Empty, 20, D_Blank),
      Row(Empty, Empty, Empty, 100000, D_10_01_2025),
      Row(V2, I2, P1, 5000, D_Text),
      Row(V1, I2, Empty, 0 - 100000, D_2025_02_30) }

DocPool ==
    { Doc(V1, I1, Empty, 100500, D_2025_01_12),
      Doc(V1, I1, Empty, 120000, D_2025_01_12),
      Doc(v1, Empty, Empty, 100000, D_2025_01_20),
      Doc(V1, Empty, Empty, 120000, D_20_01_2025),
      Doc(V3, I3, Empty, 100000, D_2025_01_10),
      Doc(Empty, Empty, Empty, 100000, D_2025_01_10),
      Doc(V1, i1, Empty, 60, D_Blank),
      Doc(V1, I1, Empty, 101000, D_Text),
      Doc(V2, Empty, P1, 5051, D_2025_01_10) }

SeqsUpTo(S, n) == UNION {[1..k -> S] : k \in 0..n}

Numbered(s, field) == [k \in 1..Len(s) |-> [s[k] EXCEPT ![field] = k]]

RcInit ==
    /\ \E s \in SeqsUpTo(DocPool, MaxDocs) : documents = Numbered(s, "filename")
    /\ \E s \in SeqsUpTo(RowPool, MaxRows) : journal_rows = Numbered(s, "entry_id")
    /\ rc_result = NotCalled

\* matches = reconcile(documents, journal_rows)
Reconcile ==
    /\ ~rc_result.called
    /\ rc_result' = reconcile(documents, journal_rows)
    /\ UNCHANGED <<documents, journal_rows>>

(***************************************************************************)
(* Parts of the state a specification does not exercise stay at rest.      *)
(***************************************************************************)
Runs == 1..MaxRuns

RcAtRest ==
    /\ documents = <<>>
    /\ journal_rows = <<>>
    /\ rc_result = NotCalled

ExAtRest ==
    /\ ex_pc = "idle"
    /\ ex_plan = <<>>
    /\ ex_dry_run = FALSE
    /\ ex_step = 1
    /\ ex_context = <<>>
    /\ ex_trace = <<>>
    /\ ex_skipped = {}
    /\ ex_manifests = <<>>
    /\ ex_raised_at = 0

WkAtRest ==
    /\ RUN_QUEUES = [r \in Runs |-> FALSE]
    /\ RUN_RESULTS = {}
    /\ queue = [r \in Runs |-> <<>>]
    /\ put_log = [r \in Runs |-> <<>>]
    /\ w_via = [r \in Runs |-> "none"]
    /\ w_pc = [r \in Runs |-> "idle"]
    /\ w_outcome = [r \in Runs |-> "none"]
    /\ w_q = [r \in Runs |-> FALSE]
    /\ w_executes = [r \in Runs |-> 0]
    /\ notifications = <<>>
    /\ consumers = [r \in Runs |-> [streaming |-> 0, ended |-> 0]]

IdAtRest ==
    /\ clock = [second |-> 0, microsecond |-> 0]
    /\ issued = <<>>

NkAtRest ==
    /\ nk_log = <<>>
    /\ nk_last = [op |-> "none"]

ScAtRest ==
    /\ sc_now = <<2025, 1, 15>>
    /\ sc_store = <<>>
    /\ sc_created = {}
    /\ sc_deleted = {}
    /\ sc_fired = <<>>
    /\ sc_last = [op |-> "none"]

QjAtRest ==
    /\ qj_csv = [exists |-> FALSE]
    /\ qj_identifiers = {}
    /\ qj_result = NotCalled

RrAtRest ==
    /\ hash_seed = <<V1, I1, P1>>
    /\ rr_documents = <<>>
    /\ rr_rows = <<>>
    /\ rr_first = NotCalled
    /\ rr_second = NotCalled

SmAtRest ==
    /\ sm_input = [fn |-> "none"]
    /\ sm_result = NotCalled

PiAtRest ==
    /\ pi_text = <<>>
    /\ pi_use_llm = FALSE
    /\ pi_adapter = "absent"
    /\ pi_result = NotCalled

PtAtRest ==
    /\ pt_parsed_intent = [kind |-> "none"]
    /\ pt_use_llm = FALSE
    /\ pt_adapter = "absent"
    /\ pt_result = NotCalled

\* the queue objects of a run id: one for a consumer that came before the run,
\* one after start_simulation, one after each cleanup
QueueObjs == 1..(MaxCleanups + 2)

SimAtRest ==
    /\ SIM_STREAMS = 0
    /\ sim_created = 0
    /\ sim_items = [obj \in QueueObjs |-> <<>>]
    /\ sim_pc = "idle"
    /\ sim_stage = 0
    /\ sim_queue_obj = 0
    /\ sim_lists = [anomalies |-> FALSE, policy_violations |-> FALSE]
    /\ sim_trace = <<>>
    /\ sim_cleanups = 0
    /\ sim_reader = [obj |-> 0, read |-> 0, state |-> "idle"]

SsAtRest ==
    /\ ss_input = [context |-> [documents |-> <<>>], use_llm |-> FALSE, adapter |-> FALSE, USE_MOCK |-> TRUE]
    /\ ss_pc = "entry"
    /\ ss_stream = <<>>
    /\ ss_chunks = <<>>
    /\ ss_sink = <<>>
    /\ ss_result = NotCalled

LkAtRest ==
    /\ lk_holder = [l \in {"RUN_LOCK", "NOTIFICATION_LOCK", "SCHEDULE_LOCK"} |-> -1]
    /\ lk_prog = [t \in 0..(MaxRequests + MaxWorkers) |-> "none"]
    /\ lk_pc = [t \in 0..(MaxRequests + MaxWorkers) |-> 0]

NrAtRest ==
    /\ nr_file = <<>>
    /\ nr_lock = 0
    /\ nr_call = [c \in 1..MaxCallers |-> [kind |-> "none", id |-> "", pc |-> "idle", loaded |-> <<>>]]
    /\ nr_appended = {}
    /\ nr_acked = {}

SrAtRest ==
    /\ sr_file = <<>>
    /\ sr_lock = "free"
    /\ sr_poll = [pc |-> "wait", loaded |-> <<>>]
    /\ sr_call = [c \in 1..MaxCallers |-> [kind |-> "none", id |-> "", due |-> FALSE, pc |-> "idle", loaded |-> <<>>]]
    /\ sr_created = {}
    /\ sr_deleted = {}

PfAtRest ==
    /\ pf_lines = <<>>
    /\ pf_decodable = TRUE
    /\ pf_pc = "file"
    /\ pf_result = [metadata |-> <<>>, body |-> <<>>]

PkAtRest ==
    /\ pk_docs = <<>>
    /\ pk_pc = "idle"
    /\ pk_next = 1
    /\ pk_fs = {}
    /\ pk_zip = {}
    /\ pk_outcome = "running"

TgAtRest ==
    /\ tg_vendor_id = <<>>
    /\ tg_pc = "idle"
    /\ tg_parsed = [called |-> FALSE]
    /\ tg_plan = <<>>
    /\ tg_notifications = <<>>
    /\ tg_outcome = "none"
    /\ tg_notify_failed = FALSE

(***************************************************************************)
(* Composition: each specification moves one group, the others stay put    *)
(***************************************************************************)
SvAtRest ==
    /\ IdAtRest
    /\ NkAtRest
    /\ ScAtRest
    /\ QjAtRest
    /\ RrAtRest
    /\ SmAtRest
    /\ PiAtRest
    /\ PtAtRest
    /\ SimAtRest
    /\ SsAtRest
    /\ LkAtRest
    /\ NrAtRest
    /\ SrAtRest
    /\ PfAtRest
    /\ PkAtRest
    /\ TgAtRest

\* everything but idVars: left alone by, and at rest in, the specification of idVars
IdOthers ==
    <<rcVars, exVars, wkVars, nkVars, scVars, qjVars, rrVars, smVars, piVars,
      ptVars, simVars, ssVars, lkVars, nrVars, srVars, pfVars, pkVars,
      tgVars>>
IdOthersAtRest ==
    /\ RcAtRest
    /\ ExAtRest
    /\ WkAtRest
    /\ NkAtRest
    /\ ScAtRest
    /\ QjAtRest
    /\ RrAtRest
    /\ SmAtRest
    /\ PiAtRest
    /\ PtAtRest
    /\ SimAtRest
    /\ SsAtRest
    /\ LkAtRest
    /\ NrAtRest
    /\ SrAtRest
    /\ PfAtRest
    /\ PkAtRest
    /\ TgAtRest

\* everything but nkVars: left alone by, and at rest in, the specification of nkVars
NkOthers ==
    <<rcVars, exVars, wkVars, idVars, scVars, qjVars, rrVars, smVars, piVars,
      ptVars, simVars, ssVars, lkVars, nrVars, srVars, pfVars, pkVars,
      tgVars>>
NkOthersAtRest ==
    /\ RcAtRest
    /\ ExAtRest
    /\ WkAtRest
    /\ IdAtRest
    /\ ScAtRest
    /\ QjAtRest
    /\ RrAtRest
    /\ SmAtRest
    /\ PiAtRest
    /\ PtAtRest
    /\ SimAtRest
    /\ SsAtRest
    /\ LkAtRest
    /\ NrAtRest
    /\ SrAtRest
    /\ PfAtRest
    /\ PkAtRest
    /\ TgAtRest

\* everything but scVars: left alone by, and at rest in, the specification of scVars
ScOthers ==
    <<rcVars, exVars, wkVars, idVars, nkVars, qjVars, rrVars, smVars, piVars,
      ptVars, simVars, ssVars, lkVars, nrVars, srVars, pfVars, pkVars,
      tgVars>>
ScOthersAtRest ==
    /\ RcAtRest
    /\ ExAtRest
    /\ WkAtRest
    /\ IdAtRest
    /\ NkAtRest
    /\ QjAtRest
    /\ RrAtRest
    /\ SmAtRest
    /\ PiAtRest
    /\ PtAtRest
    /\ SimAtRest
    /\ SsAtRest
    /\ LkAtRest
    /\ NrAtRest
    /\ SrAtRest
    /\ PfAtRest
    /\ PkAtRest
    /\ TgAtRest

\* everything but qjVars: left alone by, and at rest in, the specification of qjVars
QjOthers ==
    <<rcVars, exVars, wkVars, idVars, nkVars, scVars, rrVars, smVars, piVars,
      ptVars, simVars, ssVars, lkVars, nrVars, srVars, pfVars, pkVars,
      tgVars>>
QjOthersAtRest ==
    /\ RcAtRest
    /\ ExAtRest
    /\ WkAtRest
    /\ IdAtRest
    /\ NkAtRest
    /\ ScAtRest
    /\ RrAtRest
    /\ SmAtRest
    /\ PiAtRest
    /\ PtAtRest
    /\ SimAtRest
    /\ SsAtRest
    /\ LkAtRest
    /\ NrAtRest
    /\ SrAtRest
    /\ PfAtRest
    /\ PkAtRest
    /\ TgAtRest

\* everything but rrVars: left alone by, and at rest in, the specification of rrVars
RrOthers ==
    <<rcVars, exVars, wkVars, idVars, nkVars, scVars, qjVars, smVars, piVars,
      ptVars, simVars, ssVars, lkVars, nrVars, srVars, pfVars, pkVars,
      tgVars>>
RrOthersAtRest ==
    /\ RcAtRest
    /\ ExAtRest
    /\ WkAtRest
    /\ IdAtRest
    /\ NkAtRest
    /\ ScAtRest
    /\ QjAtRest
    /\ SmAtRest
    /\ PiAtRest
    /\ PtAtRest
    /\ SimAtRest
    /\ SsAtRest
    /\ LkAtRest
    /\ NrAtRest
    /\ SrAtRest
    /\ PfAtRest
    /\ PkAtRest
    /\ TgAtRest

\* everything but smVars: left alone by, and at rest in, the specification of smVars
SmOthers ==
    <<rcVars, exVars, wkVars, idVars, nkVars, scVars, qjVars, rrVars, piVars,
      ptVars, simVars, ssVars, lkVars, nrVars, srVars, pfVars, pkVars,
      tgVars>>
SmOthersAtRest ==
    /\ RcAtRest
    /\ ExAtRest
    /\ WkAtRest
    /\ IdAtRest
    /\ NkAtRest
    /\ ScAtRest
    /\ QjAtRest
    /\ RrAtRest
    /\ PiAtRest
    /\ PtAtRest
    /\ SimAtRest
    /\ SsAtRest
    /\ LkAtRest
    /\ NrAtRest
    /\ SrAtRest
    /\ PfAtRest
    /\ PkAtRest
    /\ TgAtRest

\* everything but piVars: left alone by, and at rest in, the specification of piVars
PiOthers ==
    <<rcVars, exVars, wkVars, idVars, nkVars, scVars, qjVars, rrVars, smVars,
      ptVars, simVars, ssVars, lkVars, nrVars, srVars, pfVars, pkVars,
      tgVars>>
PiOthersAtRest ==
    /\ RcAtRest
    /\ ExAtRest
    /\ WkAtRest
    /\ IdAtRest
    /\ NkAtRest
    /\ ScAtRest
    /\ QjAtRest
    /\ RrAtRest
    /\ SmAtRest
    /\ PtAtRest
    /\ SimAtRest
    /\ SsAtRest
    /\ LkAtRest
    /\ NrAtRest
    /\ SrAtRest
    /\ PfAtRest
    /\ PkAtRest
    /\ TgAtRest

\* everything but ptVars: left alone by, and at rest in, the specification of ptVars
PtOthers ==
    <<rcVars, exVars, wkVars, idVars, nkVars, scVars, qjVars, rrVars, smVars,
      piVars, simVars, ssVars, lkVars, nrVars, srVars, pfVars, pkVars,
      tgVars>>
PtOthersAtRest ==
    /\ RcAtRest
    /\ ExAtRest
    /\ WkAtRest
    /\ IdAtRest
    /\ NkAtRest
    /\ ScAtRest
    /\ QjAtRest
    /\ RrAtRest
    /\ SmAtRest
    /\ PiAtRest
    /\ SimAtRest
    /\ SsAtRest
    /\ LkAtRest
    /\ NrAtRest
    /\ SrAtRest
    /\ PfAtRest
    /\ PkAtRest
    /\ TgAtRest

\* everything but simVars: left alone by, and at rest in, the specification of simVars
SimOthers ==
    <<rcVars, exVars, wkVars, idVars, nkVars, scVars, qjVars, rrVars, smVars,
      piVars, ptVars, ssVars, lkVars, nrVars, srVars, pfVars, pkVars, tgVars>>
SimOthersAtRest ==
    /\ RcAtRest
    /\ ExAtRest
    /\ WkAtRest
    /\ IdAtRest
    /\ NkAtRest
    /\ ScAtRest
    /\ QjAtRest
    /\ RrAtRest
    /\ SmAtRest
    /\ PiAtRest
    /\ PtAtRest
    /\ SsAtRest
    /\ LkAtRest
    /\ NrAtRest
    /\ SrAtRest
    /\ PfAtRest
    /\ PkAtRest
    /\ TgAtRest

\* everything but ssVars: left alone by, and at rest in, the specification of ssVars
SsOthers ==
    <<rcVars, exVars, wkVars, idVars, nkVars, scVars, qjVars, rrVars, smVars,
      piVars, ptVars, simVars, lkVars, nrVars, srVars, pfVars, pkVars,
      tgVars>>
SsOthersAtRest ==
    /\ RcAtRest
    /\ ExAtRest
    /\ WkAtRest
    /\ IdAtRest
    /\ NkAtRest
    /\ ScAtRest
    /\ QjAtRest
    /\ RrAtRest
    /\ SmAtRest
    /\ PiAtRest
    /\ PtAtRest
    /\ SimAtRest
    /\ LkAtRest
    /\ NrAtRest
    /\ SrAtRest
    /\ PfAtRest
    /\ PkAtRest
    /\ TgAtRest

\* everything but lkVars: left alone by, and at rest in, the specification of lkVars
LkOthers ==
    <<rcVars, exVars, wkVars, idVars, nkVars, scVars, qjVars, rrVars, smVars,
      piVars, ptVars, simVars, ssVars, nrVars, srVars, pfVars, pkVars,
      tgVars>>
LkOthersAtRest ==
    /\ RcAtRest
    /\ ExAtRest
    /\ WkAtRest
    /\ IdAtRest
    /\ NkAtRest
    /\ ScAtRest
    /\ QjAtRest
    /\ RrAtRest
    /\ SmAtRest
    /\ PiAtRest
    /\ PtAtRest
    /\ SimAtRest
    /\ SsAtRest
    /\ NrAtRest
    /\ SrAtRest
    /\ PfAtRest
    /\ PkAtRest
    /\ TgAtRest

\* everything but nrVars: left alone by, and at rest in, the specification of nrVars
NrOthers ==
    <<rcVars, exVars, wkVars, idVars, nkVars, scVars, qjVars, rrVars, smVars,
      piVars, ptVars, simVars, ssVars, lkVars, srVars, pfVars, pkVars,
      tgVars>>
NrOthersAtRest ==
    /\ RcAtRest
    /\ ExAtRest
    /\ WkAtRest
    /\ IdAtRest
    /\ NkAtRest
    /\ ScAtRest
    /\ QjAtRest
    /\ RrAtRest
    /\ SmAtRest
    /\ PiAtRest
    /\ PtAtRest
    /\ SimAtRest
    /\ SsAtRest
    /\ LkAtRest
    /\ SrAtRest
    /\ PfAtRest
    /\ PkAtRest
    /\ TgAtRest

\* everything but srVars: left alone by, and at rest in, the specification of srVars
SrOthers ==
    <<rcVars, exVars, wkVars, idVars, nkVars, scVars, qjVars, rrVars, smVars,
      piVars, ptVars, simVars, ssVars, lkVars, nrVars, pfVars, pkVars,
      tgVars>>
SrOthersAtRest ==
    /\ RcAtRest
    /\ ExAtRest
    /\ WkAtRest
    /\ IdAtRest
    /\ NkAtRest
    /\ ScAtRest
    /\ QjAtRest
    /\ RrAtRest
    /\ SmAtRest
    /\ PiAtRest
    /\ PtAtRest
    /\ SimAtRest
    /\ SsAtRest
    /\ LkAtRest
    /\ NrAtRest
    /\ PfAtRest
    /\ PkAtRest
    /\ TgAtRest

\* everything but pfVars: left alone by, and at rest in, the specification of pfVars
PfOthers ==
    <<rcVars, exVars, wkVars, idVars, nkVars, scVars, qjVars, rrVars, smVars,
      piVars, ptVars, simVars, ssVars, lkVars, nrVars, srVars, pkVars,
      tgVars>>
PfOthersAtRest ==
    /\ RcAtRest
    /\ ExAtRest
    /\ WkAtRest
    /\ IdAtRest
    /\ NkAtRest
    /\ ScAtRest
    /\ QjAtRest
    /\ RrAtRest
    /\ SmAtRest
    /\ PiAtRest
    /\ PtAtRest
    /\ SimAtRest
    /\ SsAtRest
    /\ LkAtRest
    /\ NrAtRest
    /\ SrAtRest
    /\ PkAtRest
    /\ TgAtRest

\* everything but pkVars: left alone by, and at rest in, the specification of pkVars
PkOthers ==
    <<rcVars, exVars, wkVars, idVars, nkVars, scVars, qjVars, rrVars, smVars,
      piVars, ptVars, simVars, ssVars, lkVars, nrVars, srVars, pfVars,
      tgVars>>
PkOthersAtRest ==
    /\ RcAtRest
    /\ ExAtRest
    /\ WkAtRest
    /\ IdAtRest
    /\ NkAtRest
    /\ ScAtRest
    /\ QjAtRest
    /\ RrAtRest
    /\ SmAtRest
    /\ PiAtRest
    /\ PtAtRest
    /\ SimAtRest
    /\ SsAtRest
    /\ LkAtRest
    /\ NrAtRest
    /\ SrAtRest
    /\ PfAtRest
    /\ TgAtRest

\* everything but tgVars: left alone by, and at rest in, the specification of tgVars
TgOthers ==
    <<rcVars, exVars, wkVars, idVars, nkVars, scVars, qjVars, rrVars, smVars,
      piVars, ptVars, simVars, ssVars, lkVars, nrVars, srVars, pfVars,
      pkVars>>
TgOthersAtRest ==
    /\ RcAtRest
    /\ ExAtRest
    /\ WkAtRest
    /\ IdAtRest
    /\ NkAtRest
    /\ ScAtRest
    /\ QjAtRest
    /\ RrAtRest
    /\ SmAtRest
    /\ PiAtRest
    /\ PtAtRest
    /\ SimAtRest
    /\ SsAtRest
    /\ LkAtRest
    /\ NrAtRest
    /\ SrAtRest
    /\ PfAtRest
    /\ PkAtRest

(***************************************************************************)
(* Specification of the reconciliation engine: reconcile() applied to      *)
(* every input of the bounded pools.                                       *)
(***************************************************************************)
InitReconcile == RcInit /\ ExAtRest /\ WkAtRest /\ SvAtRest
NextReconcile == Reconcile /\ UNCHANGED <<exVars, wkVars, svVars>>
SpecReconcile == InitReconcile /\ [][NextReconcile]_vars

(***************************************************************************)
(* Vocabulary of the reconciliation claims, stated on the inputs and the   *)
(* returned lists only.                                                    *)
(***************************************************************************)
IdTokens(rec) ==
    {Upper(rec[f]) : f \in {"vendor_id", "invoice_id", "po_id"}} \ {<<>>}
SharesIdentifier(row, doc) == IdTokens(row) \cap IdTokens(doc) # {}

AmountOk(row, doc) ==
    100 * Abs(row.amount - doc.amount) <= Max(Abs(row.amount), 5000)

Parses(text) == to_date(text).ok
DaysApart(row, doc) == Abs(to_date(row.posting_date).ord - to_date(doc.date).ord)
DateOk(row, doc) ==
    \/ ~Parses(row.posting_date)
    \/ ~Parses(doc.date)
    \/ DaysApart(row, doc) <= 7

\* (position in matches, position in its documents) of every link of the
\* pair (row, doc); positions in anomalies of every anomaly of the pair
LinksOf(row, doc) ==
    {<<m, l>> \in Indices(rc_result.matches) \X (1..MaxDocs + 1) :
        /\ l \in Indices(rc_result.matches[m].documents)
        /\ rc_result.matches[m].ledger_entry = row
        /\ rc_result.matches[m].documents[l].document = doc}

AnomaliesOf(row, doc) ==
    {a \in Indices(rc_result.anomalies) :
        /\ rc_result.anomalies[a].ledger_entry = row
        /\ rc_result.anomalies[a].document = doc}

Range(s) == {s[k] : k \in Indices(s)}
InputRows == Range(journal_rows)
InputDocs == Range(documents)

\* C1: a document is linked to a ledger row only if the two share a
\* non-empty identifier (upper-cased); a pair sharing none appears neither
\* in matches nor in anomalies.
C1_IdOverlapOnly ==
    rc_result.called =>
        /\ \A m \in Indices(rc_result.matches) :
             \A l \in Indices(rc_result.matches[m].documents) :
               SharesIdentifier(rc_result.matches[m].ledger_entry,
                                rc_result.matches[m].documents[l].document)
        /\ \A row \in InputRows : \A doc \in InputDocs :
             ~SharesIdentifier(row, doc) =>
                 LinksOf(row, doc) = {} /\ AnomaliesOf(row, doc) = {}

C1_Witness ==
    /\ rc_result.called
    /\ \E row \in InputRows : \E doc \in InputDocs :
         /\ LinksOf(row, doc) # {}
         /\ Upper(row.vendor_id) = Upper(doc.vendor_id)
         /\ row.vendor_id # doc.vendor_id
    /\ \E row \in InputRows : \E doc \in InputDocs :
         /\ ~SharesIdentifier(row, doc)
         /\ row.vendor_id = <<>> /\ doc.vendor_id = <<>>

\* C2 as stated: every confirmed match is within the amount tolerance and
\* either both dates are unparseable or the dates are at most 7 days apart.
C2_BothUnparseableOrWindow ==
    rc_result.called =>
        \A row \in InputRows : \A doc \in InputDocs :
            LinksOf(row, doc) # {} =>
                /\ AmountOk(row, doc)
                /\ \/ (~Parses(row.posting_date) /\ ~Parses(doc.date))
                   \/ (Parses(row.posting_date) /\ Parses(doc.date)
                       /\ DaysApart(row, doc) <= 7)

\* C2 amended: every confirmed match is within the amount tolerance and
\* either at least one of the two dates is unparseable or the dates are at
\* most 7 days apart.
C2_EitherUnparseableOrWindow ==
    rc_result.called =>
        \A row \in InputRows : \A doc \in InputDocs :
            LinksOf(row, doc) # {} =>
                /\ AmountOk(row, doc)
                /\ \/ ~Parses(row.posting_date)
                   \/ ~Parses(doc.date)
                   \/ DaysApart(row, doc) <= 7

C2_Witness ==
    /\ rc_result.called
    /\ \E row \in InputRows : \E doc \in InputDocs :
         /\ LinksOf(row, doc) # {}
         /\ Parses(row.posting_date) /\ ~Parses(doc.date)
    /\ \E row \in InputRows : \E doc \in InputDocs :
         /\ LinksOf(row, doc) # {}
         /\ Parses(row.posting_date) /\ Parses(doc.date)
         /\ row.amount # doc.amount

\* C3: every candidate pair is exactly one of confirmed match or anomaly,
\* and it is a confirmed match iff the amount check and the date check both
\* pass (the date check passing when either date fails to parse).
C3_MatchXorAnomaly ==
    rc_result.called =>
        \A row \in InputRows : \A doc \in InputDocs :
            SharesIdentifier(row, doc) =>
                /\ Cardinality(LinksOf(row, doc)) + Cardinality(AnomaliesOf(row, doc)) = 1
                /\ LinksOf(row, doc) # {} <=> (AmountOk(row, doc) /\ DateOk(row, doc))

C3_Witness ==
    /\ rc_result.called
    /\ \E row \in InputRows : \E d1, d2 \in InputDocs :
         /\ row.amount = 100000 /\ row.posting_date = D_2025_01_10
         /\ d1.amount = 100500 /\ d1.date = D_2025_01_12
         /\ LinksOf(row, d1) # {}
         /\ AnomaliesOf(row, d2) # {}

\* C4: the reason of a pair's anomaly is the amount-delta message when the
\* amount check failed and the date-gap message when only the date check
\* failed.
C4_ReasonIsFailureMessage ==
    rc_result.called =>
        \A a \in Indices(rc_result.anomalies) :
            LET an == rc_result.anomalies[a]
            IN an.document # NoDocument =>
                 IF ~AmountOk(an.ledger_entry, an.document)
                 THEN an.reason.kind = "amount_delta_exceeds_tolerance"
                 ELSE an.reason.kind = "date_gap_outside_window"

\* C5: a row is in matches (once, with exactly its confirmed links, in
\* document order) iff it has a confirmed match; it has exactly one
\* "No supporting document found" anomaly iff it has none, placed after the
\* anomalies of its failing candidates, of which there is one each.
Confirmed(row) ==
    SelectSeq(documents, LAMBDA doc : SharesIdentifier(row, doc)
                                       /\ AmountOk(row, doc) /\ DateOk(row, doc))
Failing(row) ==
    SelectSeq(documents, LAMBDA doc : SharesIdentifier(row, doc)
                                       /\ ~(AmountOk(row, doc) /\ DateOk(row, doc)))
MatchEntriesOf(row) ==
    {m \in Indices(rc_result.matches) : rc_result.matches[m].ledger_entry = row}
RowAnomalies(row) ==
    SelectSeq(rc_result.anomalies, LAMBDA an : an.ledger_entry = row)

C5_RowOutcome ==
    rc_result.called =>
        \A row \in InputRows :
            /\ Cardinality(MatchEntriesOf(row)) = (IF Confirmed(row) # <<>> THEN 1 ELSE 0)
            /\ \A m \in MatchEntriesOf(row) :
                 [l \in Indices(rc_result.matches[m].documents) |->
                     rc_result.matches[m].documents[l].document] = Confirmed(row)
            /\ [a \in Indices(RowAnomalies(row)) |-> RowAnomalies(row)[a].document]
                 = Failing(row) \o (IF Confirmed(row) = <<>> THEN <<NoDocument>> ELSE <<>>)
            /\ \A a \in Indices(RowAnomalies(row)) :
                 RowAnomalies(row)[a].document = NoDocument
                     <=> RowAnomalies(row)[a].reason = NoSupportingDocument

C5_Witness ==
    /\ rc_result.called
    /\ \E row \in InputRows : Confirmed(row) = <<>> /\ Failing(row) # <<>>
    /\ \E row \in InputRows : Confirmed(row) = <<>> /\ Failing(row) = <<>>
                              /\ Len(documents) > 0

(***************************************************************************)
(* Orchestrator.execute                                                    *)
(***************************************************************************)
TaskNames ==
    { "doc.find_docs", "collect_documents", "data.query_journal", "match.reconcile",
      "summary.stream_summary", "summary.generate", "notify.prepare_package",
      "package.ensure_ready", "notify.send_package", "router.determine" }

\* _DETERMINISTIC_FALLBACK of the planner, task names only
StaticPlans ==
    { <<"doc.find_docs", "data.query_journal", "match.reconcile",
        "summary.stream_summary", "notify.prepare_package">>,
      <<"package.ensure_ready", "notify.send_package">>,
      <<"summary.collect_metrics", "summary.generate_markdown">>,
      <<"package.locate", "package.prepare_download">>,
      <<"router.determine">> }

PlanPool == StaticPlans \cup SeqsUpTo(TaskNames, MaxPlanLen)

\* what find_docs(identifiers) and query_journal(identifiers) can return
FoundDocs ==
    { Numbered(s, "filename") :
        s \in SeqsUpTo({ Doc(V1, I1, Empty, 100500, D_2025_01_12),
                         Doc(V1, I1, Empty, 120000, D_2025_01_12) }, 1) }
FoundRows ==
    { Numbered(s, "entry_id") :
        s \in SeqsUpTo({ Row(V1, I1, Empty, 100000, D_2025_01_10) }, 1) }

\* context[key] = value
Assign(ctx, key, value) ==
    [k \in DOMAIN ctx \cup {key} |-> IF k = key THEN value ELSE ctx[k]]
\* context.get(key, default)
Get(ctx, key, default) == IF key \in DOMAIN ctx THEN ctx[key] ELSE default

\* context["matches"], context["anomalies"] = the two lists reconcile returned
store_matches(ctx, out) ==
    Assign(Assign(ctx, "matches", out.matches), "anomalies", out.anomalies)

\* the if/elif chain of the task loop: the branch a task name selects
dispatch_mut_nodry(task, dry_run) ==
    IF task = "doc.find_docs" \/ task = "collect_documents" THEN "find_docs"
    ELSE IF task = "data.query_journal" THEN "query_journal"
    ELSE IF task = "match.reconcile" THEN "reconcile"
    ELSE IF task \in {"summary.stream_summary", "summary.generate"} THEN "stream_summary"
    ELSE IF task \in {"notify.prepare_package", "package.ensure_ready"}
         THEN "prepare_package"
    ELSE "no_handler"

dispatch(task, dry_run) ==
    IF task = "doc.find_docs" \/ task = "collect_documents" THEN "find_docs"
    ELSE IF task = "data.query_journal" THEN "query_journal"
    ELSE IF task = "match.reconcile" THEN "reconcile"
    ELSE IF task \in {"summary.stream_summary", "summary.generate"} THEN "stream_summary"
    ELSE IF task \in {"notify.prepare_package", "package.ensure_ready"}
         THEN (IF dry_run THEN "dry_run_skip" ELSE "prepare_package")
    ELSE "no_handler"

manifest_data(ctx, plan, dry_run) ==
    [run_id |-> ctx["run_id"], intent |-> ctx["intent"], plan |-> plan,
     context |-> [k \in DOMAIN ctx \ {"plan"} |-> ctx[k]],
     dry_run |-> dry_run, confirm_send |-> FALSE]

\* state when the task loop is entered: run_id, plan_list, identifiers and
\* the initial context are built
ExInit ==
    /\ ex_pc = "running"
    /\ ex_plan \in PlanPool
    /\ ex_dry_run \in BOOLEAN
    /\ ex_step = 1
    /\ ex_context = [run_id |-> "run_id", intent |-> "parsed_intent",
                     plan |-> ex_plan, identifiers |-> "identifiers"]
    /\ ex_trace = <<>>
    /\ ex_skipped = {}
    /\ ex_manifests = <<>>
    /\ ex_raised_at = 0

AtStep(handler) ==
    /\ ex_pc = "running"
    /\ ex_step <= Len(ex_plan)
    /\ dispatch(ex_plan[ex_step], ex_dry_run) = handler

\* the step's branch ran to its end: the loop goes to the next step
Advance(handler) ==
    /\ ex_trace' = Append(ex_trace, [step |-> ex_step, handler |-> handler])
    /\ ex_step' = ex_step + 1
    /\ UNCHANGED <<ex_pc, ex_plan, ex_dry_run, ex_manifests, ex_raised_at>>

StepFindDocs ==
    /\ AtStep("find_docs")
    /\ \E found \in FoundDocs : ex_context' = Assign(ex_context, "documents", found)
    /\ Advance("find_docs")
    /\ UNCHANGED ex_skipped

StepQueryJournal ==
    /\ AtStep("query_journal")
    /\ \E found \in FoundRows : ex_context' = Assign(ex_context, "journal_entries", found)
    /\ Advance("query_journal")
    /\ UNCHANGED ex_skipped

StepReconcile ==
    /\ AtStep("reconcile")
    /\ ex_context' = store_matches(ex_context,
                                   reconcile(Get(ex_context, "documents", <<>>),
                                             Get(ex_context, "journal_entries", <<>>)))
    /\ Advance("reconcile")
    /\ UNCHANGED ex_skipped

StepSummary ==
    /\ AtStep("stream_summary")
    /\ ex_context' = Assign(ex_context, "summary_text", "summary_text")
    /\ Advance("stream_summary")
    /\ UNCHANGED ex_skipped

StepPreparePackage ==
    /\ AtStep("prepare_package")
    /\ ex_context' = Assign(ex_context, "package_path", "package_path")
    /\ Advance("prepare_package")
    /\ UNCHANGED ex_skipped

\* dry_run: log and continue
StepDryRunSkip ==
    /\ AtStep("dry_run_skip")
    /\ Advance("dry_run_skip")
    /\ UNCHANGED <<ex_context, ex_skipped>>

StepNoHandler_mut_abort ==
    /\ AtStep("no_handler")
    /\ ex_pc' = "failed"
    /\ ex_raised_at' = ex_step
    /\ UNCHANGED <<ex_plan, ex_dry_run, ex_step, ex_context, ex_trace,
                   ex_skipped, ex_manifests>>

\* else: LOGGER.debug("No handler for task %s; skipping", task)
StepNoHandler ==
    /\ AtStep("no_handler")
    /\ Advance("no_handler")
    /\ ex_skipped' = ex_skipped \cup {ex_step}
    /\ UNCHANGED ex_context

\* the call made by the step's branch raises: nothing in execute catches it
TaskRaises_mut_swallow ==
    /\ ex_pc = "running"
    /\ ex_step <= Len(ex_plan)
    /\ dispatch(ex_plan[ex_step], ex_dry_run) \in
          {"find_docs", "query_journal", "reconcile", "stream_summary", "prepare_package"}
    /\ ex_raised_at = 0
    /\ ex_raised_at' = ex_step
    /\ ex_step' = ex_step + 1
    /\ UNCHANGED <<ex_pc, ex_plan, ex_dry_run, ex_context, ex_trace, ex_skipped,
                   ex_manifests>>

TaskRaises ==
    /\ ex_pc = "running"
    /\ ex_step <= Len(ex_plan)
    /\ dispatch(ex_plan[ex_step], ex_dry_run) \in
          {"find_docs", "query_journal", "reconcile", "stream_summary", "prepare_package"}
    /\ ex_pc' = "failed"
    /\ ex_raised_at' = ex_step
    /\ UNCHANGED <<ex_plan, ex_dry_run, ex_step, ex_context, ex_trace, ex_skipped,
                   ex_manifests>>

\* after the loop: manifest.json is written and execute returns
WriteManifest ==
    /\ ex_pc = "running"
    /\ ex_step > Len(ex_plan)
    /\ ex_manifests' = Append(ex_manifests, manifest_data(ex_context, ex_plan, ex_dry_run))
    /\ ex_pc' = "completed"
    /\ UNCHANGED <<ex_plan, ex_dry_run, ex_step, ex_context, ex_trace, ex_skipped,
                   ex_raised_at>>

InitExecute == ExInit /\ RcAtRest /\ WkAtRest /\ SvAtRest
NextExecute ==
    /\ \/ StepFindDocs
       \/ StepQueryJournal
       \/ StepReconcile
       \/ StepSummary
       \/ StepPreparePackage
       \/ StepDryRunSkip
       \/ StepNoHandler
       \/ TaskRaises
       \/ WriteManifest
    /\ UNCHANGED <<rcVars, wkVars, svVars>>
\* execute is one sequential call: it keeps running until it returns or raises
SpecExecute == InitExecute /\ [][NextExecute]_vars /\ WF_vars(NextExecute)

(***************************************************************************)
(* Vocabulary of the orchestrator claims                                   *)
(***************************************************************************)
DocTasks == {"doc.find_docs", "collect_documents"}
JournalTasks == {"data.query_journal"}
ReconcileTasks == {"match.reconcile"}
SummaryTasks == {"summary.stream_summary", "summary.generate"}
PackageTasks == {"notify.prepare_package", "package.ensure_ready"}
KnownTasks == DocTasks \cup JournalTasks \cup ReconcileTasks \cup SummaryTasks
                  \cup PackageTasks
GeneratePackagePlan ==
    <<"doc.find_docs", "data.query_journal", "match.reconcile",
      "summary.stream_summary", "notify.prepare_package">>

PlanHas(tasks) == \E k \in Indices(ex_plan) : ex_plan[k] \in tasks
HasKey(key) == key \in DOMAIN ex_context
Terminated == ex_pc \in {"completed", "failed"}
\* the plan steps that were gone through, in the order they were
StepsDone == [k \in Indices(ex_trace) |-> ex_trace[k].step]
RanHandler(k) == ex_trace[k].handler \notin {"no_handler", "dry_run_skip"}

C6_Completed ==
    ex_pc = "completed" =>
        /\ ex_raised_at = 0
        /\ StepsDone = [k \in Indices(ex_plan) |-> k]
        /\ Len(ex_manifests) = 1
        /\ ex_manifests[1].plan = ex_plan
        /\ ex_manifests[1].intent = ex_context["intent"]
        /\ ex_manifests[1].dry_run = ex_dry_run
        /\ ex_manifests[1].confirm_send = FALSE
        /\ DOMAIN ex_manifests[1].context = DOMAIN ex_context \ {"plan"}
        /\ \A key \in DOMAIN ex_manifests[1].context :
             ex_manifests[1].context[key] = ex_context[key]
        /\ \A k \in Indices(ex_trace) :
             ex_plan[k] \in KnownTasks \ PackageTasks => RanHandler(k)
        /\ HasKey("documents") <=> PlanHas(DocTasks)
        /\ HasKey("journal_entries") <=> PlanHas(JournalTasks)
        /\ HasKey("matches") <=> PlanHas(ReconcileTasks)
        /\ HasKey("summary_text") <=> PlanHas(SummaryTasks)
        /\ HasKey("package_path") <=> (PlanHas(PackageTasks) /\ ~ex_dry_run)

\* C6: when no task raises, execute goes through the plan steps one after
\* another in plan order and terminates completed with exactly one manifest
\* (intent, plan, context without the plan key, dry_run, confirm_send);
\* under dry_run only the packaging step is skipped and the manifest is
\* still written.
C6_SequentialThenManifest ==
    /\ [](C6_Completed)
    /\ [](Len(ex_manifests) <= 1)
    /\ [](ex_pc = "failed" => ex_raised_at # 0)
    /\ <>Terminated

C6_Witness ==
    /\ ex_pc = "completed"
    /\ ex_plan = GeneratePackagePlan
    /\ ex_dry_run
    /\ Len(ex_manifests) = 1
    /\ Len(ex_context["documents"]) = 1
    /\ ~HasKey("package_path")

\* C7: a step whose task has no handler leaves the context unchanged and
\* the loop goes on with the next step; it never aborts the run, every
\* later step is still gone through and the manifest is still written.
C7_UnknownTaskSkipped ==
    /\ [][(ex_pc = "running" /\ ex_step <= Len(ex_plan)
              /\ ex_plan[ex_step] \notin KnownTasks)
            => (/\ ex_context' = ex_context
                /\ ex_manifests' = ex_manifests
                /\ ex_pc' = "running"
                /\ ex_step' = ex_step + 1)]_vars
    /\ [](ex_raised_at # 0 => ex_plan[ex_raised_at] \in KnownTasks)
    /\ [](ex_pc = "completed" =>
             /\ StepsDone = [k \in Indices(ex_plan) |-> k]
             /\ \A k \in Indices(ex_plan) : ex_plan[k] \in KnownTasks \ PackageTasks
                                               => RanHandler(k)
             /\ ex_manifests # <<>>)
    /\ <>Terminated

C7_Witness ==
    /\ ex_pc = "completed"
    /\ Len(ex_plan) = 2
    /\ ex_plan[1] = "router.determine"
    /\ ex_plan[2] = "doc.find_docs"
    /\ HasKey("documents")
    /\ ex_manifests # <<>>

\* C8: when a task raises, the loop is aborted (no later plan step is gone
\* through), the run ends failed and no manifest is written for it.
C8_RaiseAborts ==
    /\ [](ex_raised_at # 0 =>
             /\ ex_pc = "failed"
             /\ ex_manifests = <<>>
             /\ ex_step = ex_raised_at
             /\ StepsDone = [k \in 1..(ex_raised_at - 1) |-> k])
    /\ [][ex_pc = "failed" => exVars' = exVars]_vars

C8_Witness ==
    /\ ex_pc = "failed"
    /\ ex_plan = GeneratePackagePlan
    /\ ex_raised_at = 3
    /\ HasKey("documents")
    /\ ~HasKey("matches")
    /\ ex_manifests = <<>>

(***************************************************************************)
(* Run workers, the run tables and the stream endpoint                     *)
(* (src/app.py and api/services/orchestrator_service.py).  A run created   *)
(* by nl_query or by the scheduler is executed by app._worker, a run       *)
(* created by start_run by orchestrator_service._worker.                   *)
(***************************************************************************)
Sentinel == "None"

\* how many times the item was put
Count(seq, item) == Cardinality({k \in Indices(seq) : seq[k] = item})

\* q.put(item)
Put(r, item) ==
    /\ queue' = [queue EXCEPT ![r] = Append(@, item)]
    /\ put_log' = [put_log EXCEPT ![r] = Append(@, item)]

\* _enqueue / enqueue: look the queue up under RUN_LOCK, put if there is one
enqueue(r, event) ==
    IF RUN_QUEUES[r] THEN Put(r, event) ELSE UNCHANGED <<queue, put_log>>

Goto(r, pc) == w_pc' = [w_pc EXCEPT ![r] = pc]

\* run_id = _new_run_id(): the timestamp of the request at microsecond
\* resolution.  The run tables are modelled for requests taken at distinct
\* clock readings, whose ids come in increasing order; what two requests at
\* one reading get is the subject of the run id section
Fresh(r) ==
    /\ w_pc[r] = "idle"
    /\ \A earlier \in 1..(r - 1) : w_pc[earlier] # "idle"

\* the thread is created with the run's arguments and started
StartThread(r, via) ==
    /\ w_via' = [w_via EXCEPT ![r] = via]
    /\ Goto(r, "status")

\* POST /api/nl_query of app.py
nl_query(r) ==
    /\ Fresh(r)
    /\ RUN_QUEUES' = [RUN_QUEUES EXCEPT ![r] = TRUE]
    /\ StartThread(r, "nl_query")
    /\ UNCHANGED <<RUN_RESULTS, queue, put_log, w_outcome, w_q, w_executes,
                   notifications, consumers>>

\* start_run of orchestrator_service.py
start_run(r) ==
    /\ Fresh(r)
    /\ RUN_QUEUES' = [RUN_QUEUES EXCEPT ![r] = TRUE]
    /\ StartThread(r, "start_run")
    /\ UNCHANGED <<RUN_RESULTS, queue, put_log, w_outcome, w_q, w_executes,
                   notifications, consumers>>

\* _trigger_scheduled_run: the thread is started without a queue
trigger_scheduled_run(r) ==
    /\ Fresh(r)
    /\ StartThread(r, "scheduler")
    /\ notifications' = Append(notifications, [type |-> "scheduler_triggered", run |-> r])
    /\ UNCHANGED <<RUN_QUEUES, RUN_RESULTS, queue, put_log, w_outcome, w_q,
                   w_executes, consumers>>

except_clause_mut_complete(r) ==
    /\ enqueue(r, "error")
    /\ Goto(r, "complete")

\* except Exception: log, enqueue "error"; the finally block is next
except_clause(r) ==
    /\ enqueue(r, "error")
    /\ Goto(r, "finally")

put_sentinel_mut_skip(r, q) ==
    IF q /\ w_outcome[r] = "returned"
    THEN Put(r, Sentinel) ELSE UNCHANGED <<queue, put_log>>

\* if q: q.put(None)
put_sentinel(r, q) ==
    IF q THEN Put(r, Sentinel) ELSE UNCHANGED <<queue, put_log>>

\* enqueue "status", then orchestrator.execute is called
WStatus(r) ==
    /\ w_pc[r] = "status"
    /\ enqueue(r, "status")
    /\ Goto(r, "execute")
    /\ w_executes' = [w_executes EXCEPT ![r] = @ + 1]
    /\ UNCHANGED <<RUN_QUEUES, RUN_RESULTS, w_via, w_outcome, w_q,
                   notifications, consumers>>

\* the summary task calls stream_callback with a chunk of the summary,
\* which enqueues a summary_chunk
WStreamCallback(r) ==
    /\ w_pc[r] = "execute"
    /\ Count(put_log[r], "summary_chunk") < MaxChunks
    /\ enqueue(r, "summary_chunk")
    /\ UNCHANGED <<RUN_QUEUES, RUN_RESULTS, w_via, w_pc, w_outcome, w_q, w_executes,
                   notifications, consumers>>

\* a task raises: execute propagates it to the worker's except clause
WTaskRaises(r) ==
    /\ w_pc[r] = "execute"
    /\ w_outcome' = [w_outcome EXCEPT ![r] = "raised"]
    /\ except_clause(r)
    /\ UNCHANGED <<RUN_QUEUES, RUN_RESULTS, w_via, w_q, w_executes,
                   notifications, consumers>>

\* the task loop is over: the manifest is written, execute returns and the
\* worker records the result, RUN_RESULTS[run_id] = result
WExecuteReturns(r) ==
    /\ w_pc[r] = "execute"
    /\ w_outcome' = [w_outcome EXCEPT ![r] = "returned"]
    /\ RUN_RESULTS' = RUN_RESULTS \cup {r}
    /\ Goto(r, "after_record")
    /\ UNCHANGED <<RUN_QUEUES, queue, put_log, w_via, w_q, w_executes,
                   notifications, consumers>>

\* app._worker: execute returns, but persisting the conversation fails
\* before the result is recorded
WPersistFails(r) ==
    /\ w_pc[r] = "execute"
    /\ w_via[r] # "start_run"
    /\ w_outcome' = [w_outcome EXCEPT ![r] = "returned"]
    /\ except_clause(r)
    /\ UNCHANGED <<RUN_QUEUES, RUN_RESULTS, w_via, w_q, w_executes,
                   notifications, consumers>>

\* app._worker: _record_run_notifications, whose failure is caught
WNotify(r) ==
    /\ w_pc[r] = "after_record"
    /\ w_via[r] # "start_run"
    /\ \/ notifications' = Append(notifications, [type |-> "run_complete", run |-> r])
       \/ notifications' = Append(Append(notifications, [type |-> "run_complete", run |-> r]),
                                  [type |-> "anomaly_alert", run |-> r])
       \/ UNCHANGED notifications
    /\ Goto(r, "complete")
    /\ UNCHANGED <<RUN_QUEUES, RUN_RESULTS, queue, put_log, w_via, w_outcome, w_q, w_executes, consumers>>

\* orchestrator_service._worker: the AuditRun row is stored
WStoreAuditRun(r) ==
    /\ w_pc[r] = "after_record"
    /\ w_via[r] = "start_run"
    /\ Goto(r, "complete")
    /\ UNCHANGED <<RUN_QUEUES, RUN_RESULTS, queue, put_log, w_via, w_outcome, w_q, w_executes, notifications, consumers>>

\* orchestrator_service._worker: the database session raises
WStoreAuditRunFails(r) ==
    /\ w_pc[r] = "after_record"
    /\ w_via[r] = "start_run"
    /\ except_clause(r)
    /\ UNCHANGED <<RUN_QUEUES, RUN_RESULTS, w_via, w_outcome, w_q, w_executes,
                   notifications, consumers>>

\* enqueue "complete"; the try block is over
WComplete(r) ==
    /\ w_pc[r] = "complete"
    /\ enqueue(r, "complete")
    /\ Goto(r, "finally")
    /\ UNCHANGED <<RUN_QUEUES, RUN_RESULTS, w_via, w_outcome, w_q, w_executes,
                   notifications, consumers>>

\* finally of app._worker: with RUN_LOCK: q = RUN_QUEUES.get(run_id), then
\* "if q: q.put(None)".  Only this thread removes the run's entry, so the
\* lookup and the put are one step
WFinallyPutSentinel(r) ==
    /\ w_pc[r] = "finally"
    /\ w_via[r] # "start_run"
    /\ put_sentinel(r, RUN_QUEUES[r])
    /\ Goto(r, "pop")
    /\ UNCHANGED <<RUN_QUEUES, RUN_RESULTS, w_via, w_outcome, w_q, w_executes,
                   notifications, consumers>>

\* app._worker: with RUN_LOCK: RUN_QUEUES.pop(run_id, None)
WFinallyPop(r) ==
    /\ w_pc[r] = "pop"
    /\ RUN_QUEUES' = [RUN_QUEUES EXCEPT ![r] = FALSE]
    /\ Goto(r, "done")
    /\ UNCHANGED <<RUN_RESULTS, queue, put_log, w_via, w_outcome, w_q,
                   w_executes, notifications, consumers>>

\* finally of orchestrator_service._worker:
\* with RUN_LOCK: queue_obj = RUN_QUEUES.pop(run_id, None)
WFinallyPopFirst(r) ==
    /\ w_pc[r] = "finally"
    /\ w_via[r] = "start_run"
    /\ w_q' = [w_q EXCEPT ![r] = RUN_QUEUES[r]]
    /\ RUN_QUEUES' = [RUN_QUEUES EXCEPT ![r] = FALSE]
    /\ Goto(r, "put")
    /\ UNCHANGED <<RUN_RESULTS, queue, put_log, w_via, w_outcome, w_executes, notifications, consumers>>

\* orchestrator_service._worker: if queue_obj: queue_obj.put(None)
WPutSentinel(r) ==
    /\ w_pc[r] = "put"
    /\ put_sentinel(r, w_q[r])
    /\ Goto(r, "done")
    /\ UNCHANGED <<RUN_QUEUES, RUN_RESULTS, w_via, w_outcome, w_q, w_executes,
                   notifications, consumers>>

WorkerStep(r) ==
    \/ WStatus(r)
    \/ WStreamCallback(r)
    \/ WTaskRaises(r)
    \/ WExecuteReturns(r)
    \/ WPersistFails(r)
    \/ WNotify(r)
    \/ WStoreAuditRun(r)
    \/ WStoreAuditRunFails(r)
    \/ WComplete(r)
    \/ WFinallyPutSentinel(r)
    \/ WFinallyPop(r)
    \/ WFinallyPopFirst(r)
    \/ WPutSentinel(r)

\* stream requests answered with an event generator so far
Streams ==
    LET upto[k \in 0..MaxRuns] ==
            IF k = 0 THEN 0
            ELSE upto[k - 1] + consumers[k].streaming + consumers[k].ended
    IN  upto[MaxRuns]

\* GET /api/stream/<run_id>: the queue is looked up under RUN_LOCK; an
\* unknown run is answered 404 and leaves nothing behind, otherwise the
\* event generator over the queue is returned
stream(r) ==
    /\ Streams < MaxConsumers
    /\ IF RUN_QUEUES[r]
       THEN consumers' = [consumers EXCEPT ![r].streaming = @ + 1]
       ELSE UNCHANGED consumers
    /\ UNCHANGED <<RUN_QUEUES, RUN_RESULTS, queue, put_log, w_via, w_pc, w_outcome,
                   w_q, w_executes, notifications>>

\* one round of event_stream in a generator of run r: item = q.get();
\* None ends the stream
event_stream(r) ==
    /\ consumers[r].streaming > 0
    /\ queue[r] # <<>>
    /\ queue' = [queue EXCEPT ![r] = Tail(@)]
    /\ IF Head(queue[r]) = Sentinel
       THEN consumers' = [consumers EXCEPT ![r] = [streaming |-> @.streaming - 1,
                                                   ended |-> @.ended + 1]]
       ELSE UNCHANGED consumers
    /\ UNCHANGED <<RUN_QUEUES, RUN_RESULTS, put_log, w_via, w_pc, w_outcome,
                   w_q, w_executes, notifications>>

WkInit == WkAtRest

InitWorker == WkInit /\ RcAtRest /\ ExAtRest /\ SvAtRest
NextWorker ==
    /\ \/ \E r \in Runs : nl_query(r)
       \/ \E r \in Runs : start_run(r)
       \/ \E r \in Runs : trigger_scheduled_run(r)
       \/ \E r \in Runs : WorkerStep(r)
       \/ \E r \in Runs : stream(r)
       \/ \E r \in Runs : event_stream(r)
    /\ UNCHANGED <<rcVars, exVars, svVars>>
\* the threads that can take a step are the run workers and the stream
\* generators
Progress ==
    /\ \/ \E r \in Runs : WorkerStep(r)
       \/ \E r \in Runs : event_stream(r)
    /\ UNCHANGED <<rcVars, exVars, svVars>>
\* a runnable thread is eventually scheduled: every task returns or raises,
\* and a connected stream client keeps reading
SpecWorker == InitWorker /\ [][NextWorker]_vars /\ WF_vars(Progress)

(***************************************************************************)
(* Vocabulary of the run worker claims                                     *)
(***************************************************************************)
ViaRequest(r) == w_via[r] \in {"nl_query", "start_run"}
\* entries the worker of run r appended to the notification log
WorkerNotifications(r) ==
    {k \in Indices(notifications) :
        notifications[k].run = r /\ notifications[k].type # "scheduler_triggered"}
C9_SentinelShape ==
    \A r \in Runs :
        /\ Count(put_log[r], Sentinel) <= 1
        /\ Count(put_log[r], Sentinel) = 1 => put_log[r][Len(put_log[r])] = Sentinel
        /\ (w_pc[r] = "done" /\ ViaRequest(r)) => Count(put_log[r], Sentinel) = 1

\* every run started by a request has its sentinel, and no stream consumer
\* is left reading a queue whose sentinel nobody received
C9_Settled ==
    /\ \A r \in Runs : ViaRequest(r) => Count(put_log[r], Sentinel) = 1
    /\ \A r \in Runs : consumers[r].streaming > 0 => consumers[r].ended > 0

C10_ErrorEventAndNotification ==
    \A r \in Runs :
        (w_outcome[r] = "raised" /\ w_pc[r] = "done" /\ ViaRequest(r)) =>
            /\ Count(put_log[r], "error") = 1
            /\ Cardinality(WorkerNotifications(r)) = 1
            /\ Count(put_log[r], "complete") = 0
            /\ r \notin RUN_RESULTS
            /\ w_executes[r] = 1

\* C10 amended: when execute raised, the worker puts exactly one error
\* event on the run's queue when the run has one (a scheduler-triggered run
\* has none and the event is dropped) and appends no notification entry;
\* it puts no complete event, records no result, and execute is called once.
C10_ErrorEventNoNotification ==
    \A r \in Runs :
        w_outcome[r] = "raised" =>
            /\ Count(put_log[r], "error") <= 1
            /\ WorkerNotifications(r) = {}
            /\ Count(put_log[r], "complete") = 0
            /\ r \notin RUN_RESULTS
            /\ w_executes[r] = 1
            /\ w_pc[r] \in {"finally", "put", "pop", "done"} =>
                 Count(put_log[r], "error") = (IF ViaRequest(r) THEN 1 ELSE 0)

C10_Witness ==
    \E r \in Runs :
        /\ w_outcome[r] = "raised"
        /\ w_pc[r] = "done"
        /\ w_via[r] = "nl_query"
        /\ put_log[r] = <<"status", "error", Sentinel>>
        /\ notifications = <<>>

(***************************************************************************)
(* Run ids (src/app.py _new_run_id, orchestrator_service.new_run_id, and   *)
(* the default of Orchestrator.execute).  A run id is the text             *)
(* strftime gives for the clock reading; the readings of the model lie in  *)
(* one minute, so the fields above the second are the same for all.        *)
(***************************************************************************)
Readings == [second : 0..MaxSecond, microsecond : 0..MaxMicro]

\* the decimal digits of n, zero-padded to the width of the directive
Pad(n, width) == [k \in 1..width |-> (n \div (10 ^ (width - k))) % 10]

\* strftime("%Y%m%d%H%M%S"): %S is two digits
strftime_S(reading) == Pad(reading.second, 2)

\* strftime("%Y%m%d%H%M%S%f"): %f is six digits
strftime_Sf(reading) == Pad(reading.second, 2) \o Pad(reading.microsecond, 6)

\* the reading is later than the clock
Later(reading) ==
    \/ reading.second > clock.second
    \/ reading.second = clock.second /\ reading.microsecond > clock.microsecond

\* time passes between two calls
Tick ==
    /\ \E reading \in Readings : Later(reading) /\ clock' = reading
    /\ UNCHANGED issued

Issue(via, run_id) ==
    /\ Len(issued) < MaxIds
    /\ issued' = Append(issued, [via |-> via, run_id |-> run_id])
    /\ UNCHANGED clock

\* app._new_run_id(), called by nl_query and by _trigger_scheduled_run
new_run_id_app(via) == Issue(via, strftime_Sf(clock))

\* orchestrator_service.new_run_id(), called by start_run
new_run_id_service == Issue("start_run", strftime_Sf(clock))

\* Orchestrator.execute called without a run_id:
\* run_id or datetime.utcnow().strftime("%Y%m%d%H%M%S")
execute_default_run_id == Issue("execute", strftime_S(clock))

IdInit == IdAtRest

InitRunIds == IdInit /\ IdOthersAtRest
NextRunIds ==
    /\ \/ Tick
       \/ \E via \in {"nl_query", "scheduler"} : new_run_id_app(via)
       \/ new_run_id_service
       \/ execute_default_run_id
    /\ UNCHANGED IdOthers
SpecRunIds == InitRunIds /\ [][NextRunIds]_vars

\* C11: any two runs created in the process have distinct run ids, two runs
\* created at the same clock reading included.
C11_DistinctRunIds ==
    \A i, j \in DOMAIN issued : i # j => issued[i].run_id # issued[j].run_id

(***************************************************************************)
(* Notification log and POST /api/notifications/ack (src/app.py).          *)
(* JSON values of the request body are records tagged with their kind.     *)
(***************************************************************************)
Null == [kind |-> "null"]
Str(text) == [kind |-> "str", text |-> text]
Num(n) == [kind |-> "int", n |-> n]
List(items) == [kind |-> "list", items |-> items]

\* truth value of a JSON scalar in "if value"
truthy(value) ==
    CASE value.kind = "str" -> value.text # ""
      [] value.kind = "int" -> value.n # 0
      [] OTHER -> FALSE

\* str(value)
py_str(value) == IF value.kind = "str" THEN value.text ELSE ToString(value.n)

\* ids of uuid.uuid4() and a text no entry has; the values of an ids list
\* are the ids of the first two entries, an empty text, a number and null
UuidPool == {"u" \o ToString(k) : k \in 1..MaxEntries}
TypePool == {"run_complete", "anomaly_alert"}
ScalarPool == {Str("u1"), Str("u2"), Str(""), Num(7), Null}
IdsRawPool ==
    {Null, Num(7)} \cup {Str(u) : u \in UuidPool \cup {"u9", ""}}
        \cup {List(items) : items \in SeqsUpTo(ScalarPool, MaxAckIds)}

\* [str(value) for value in ids_raw if value]
kept_strs(items) ==
    LET keep(value) == truthy(value)
        picked == SelectSeq(items, keep)
    IN  [k \in 1..Len(picked) |-> py_str(picked[k])]

\* the ids the handler takes from data.get("ids")
ack_ids(ids_raw) ==
    CASE ids_raw.kind = "str" -> <<ids_raw.text>>
      [] ids_raw.kind = "list" -> kept_strs(ids_raw.items)
      [] OTHER -> <<>>

mark_read_mut_toggle(log, id_set) ==
    [k \in 1..Len(log) |->
        IF log[k].id \in id_set
        THEN [log[k] EXCEPT !.read = ~log[k].read]
        ELSE log[k]]

\* the for loop of notifications_ack: entry["read"] = True for the entries
\* whose id is in id_set and that are not read yet
mark_read(log, id_set) ==
    [k \in 1..Len(log) |->
        IF log[k].id \in id_set /\ ~log[k].read
        THEN [log[k] EXCEPT !.read = TRUE]
        ELSE log[k]]

\* updated: how often the loop body ran
updated_count(log, id_set) ==
    Cardinality({k \in 1..Len(log) : log[k].id \in id_set /\ ~log[k].read})

\* _append_notification(_build_notification(type, message)): a new entry
\* with a uuid4 id and read = False is appended under NOTIFICATION_LOCK; the
\* ids, all distinct, are named in the order of their entries
append_notification(id, type) ==
    /\ Len(nk_log) < MaxEntries
    /\ id = "u" \o ToString(Len(nk_log) + 1)
    /\ nk_log' = Append(nk_log, [id |-> id, type |-> type, read |-> FALSE])
    /\ nk_last' = [op |-> "append"]

ack_rejected(ids_raw) ==
    /\ nk_last' = [op |-> "ack", ids_raw |-> ids_raw, status |-> 400, updated |-> 0]
    /\ UNCHANGED nk_log

ack_applied(ids_raw, id_set) ==
    /\ nk_log' = mark_read(nk_log, id_set)
    /\ nk_last' = [op |-> "ack", ids_raw |-> ids_raw, status |-> 200,
                   updated |-> updated_count(nk_log, id_set)]

\* POST /api/notifications/ack
notifications_ack(ids_raw) ==
    IF ack_ids(ids_raw) = <<>>
    THEN ack_rejected(ids_raw)
    ELSE ack_applied(ids_raw, Range(ack_ids(ids_raw)))

NkInit == NkAtRest

InitNotifications == NkInit /\ NkOthersAtRest
NextNotifications ==
    /\ \/ \E id \in UuidPool, type \in TypePool : append_notification(id, type)
       \/ \E ids_raw \in IdsRawPool : notifications_ack(ids_raw)
    /\ UNCHANGED NkOthers
SpecNotifications == InitNotifications /\ [][NextNotifications]_vars

(***************************************************************************)
(* Vocabulary of the ack claim                                             *)
(***************************************************************************)
\* the ids named by the request body: the string itself, or the texts of the
\* list's non-empty items
RequestedIds(ids_raw) ==
    CASE ids_raw.kind = "str" -> {ids_raw.text}
      [] ids_raw.kind = "list" ->
            {py_str(ids_raw.items[k]) :
                k \in {j \in 1..Len(ids_raw.items) : truthy(ids_raw.items[j])}}
      [] OTHER -> {}

WentRead == {k \in 1..Len(nk_log) : ~nk_log[k].read /\ nk_log'[k].read}

\* C12: an ack only flips read flags.  The log keeps its length, every
\* entry keeps its id and type, an entry is read afterwards iff it was read
\* before or its id is in the request, the response's updated is the number
\* of entries that went from unread to read, and an ack that repeats the
\* previous ack's request answers updated = 0.
C12_AckOnlyFlipsRead ==
    [][nk_last'.op = "ack" =>
          /\ Len(nk_log') = Len(nk_log)
          /\ \A k \in 1..Len(nk_log) :
                /\ nk_log'[k].id = nk_log[k].id
                /\ nk_log'[k].type = nk_log[k].type
                /\ nk_log'[k].read =
                      (nk_log[k].read \/ nk_log[k].id \in RequestedIds(nk_last'.ids_raw))
          /\ nk_last'.updated = Cardinality(WentRead)
          /\ (nk_last.op = "ack" /\ nk_last.ids_raw = nk_last'.ids_raw)
                => nk_last'.updated = 0
          /\ nk_last'.status = (IF RequestedIds(nk_last'.ids_raw) = {} THEN 400 ELSE 200)
    ]_vars

C12_Witness ==
    /\ nk_last.op = "ack"
    /\ nk_last.status = 200
    /\ nk_last.updated = 1
    /\ Len(nk_log) = 2
    /\ nk_log[1].read /\ ~nk_log[2].read
    /\ nk_last.ids_raw = List(<<Str(""), Str(nk_log[1].id)>>)

(***************************************************************************)
(* Schedule store, scheduler API and scheduler poll (src/app.py).  Times   *)
(* are kept at day resolution, <<year, month, day>>; None is <<>>.         *)
(***************************************************************************)
NoTime == <<>>

\* a > b for two times
After(a, b) ==
    \/ a[1] > b[1]
    \/ a[1] = b[1] /\ a[2] > b[2]
    \/ a[1] = b[1] /\ a[2] = b[2] /\ a[3] > b[3]

next_day(dt) ==
    IF dt[3] < DaysInMonth(dt[1], dt[2]) THEN <<dt[1], dt[2], dt[3] + 1>>
    ELSE IF dt[2] < 12 THEN <<dt[1], dt[2] + 1, 1>>
    ELSE <<dt[1] + 1, 1, 1>>

\* dt + timedelta(days=n)
plus_days(dt, n) ==
    LET at[k \in 0..n] == IF k = 0 THEN dt ELSE next_day(at[k - 1])
    IN  at[n]

\* day = min(dt.day, calendar.monthrange(year, month)[1])
clamp_day(year, month, day) == <<year, month, Min2(day, DaysInMonth(year, month))>>

advance_month(dt) == clamp_day(dt[1] + (dt[2] \div 12), (dt[2] % 12) + 1, dt[3])

\* texts of the request body: sequences of characters
Txt(chars) == [kind |-> "str", chars |-> chars]
daily == <<"d", "a", "i", "l", "y">>
weekly == <<"w", "e", "e", "k", "l", "y">>
monthly == <<"m", "o", "n", "t", "h", "l", "y">>
hourly == <<"h", "o", "u", "r", "l", "y">>
WEEKLY_sp == <<"W", "E", "E", "K", "L", "Y", " ">>
SCHEDULE_FREQUENCIES == {daily, weekly, monthly}

LowerChar(c) ==
    CASE c = "W" -> "w"
      [] c = "E" -> "e"
      [] c = "K" -> "k"
      [] c = "L" -> "l"
      [] c = "Y" -> "y"
      [] OTHER -> c

lower(s) == [k \in 1..Len(s) |-> LowerChar(s[k])]

\* str.strip(): the text between the first and the last non-blank character
strip(s) ==
    LET inked == {k \in 1..Len(s) : s[k] # " "}
    IN  IF inked = {} THEN <<>>
        ELSE SubSeq(s, CHOOSE k \in inked : \A j \in inked : k <= j,
                       CHOOSE k \in inked : \A j \in inked : k >= j)

\* str(value or "")
str_or_empty(value) == IF value.kind = "str" THEN value.chars ELSE <<>>

increment_schedule_time(dt, frequency) ==
    CASE frequency = daily -> plus_days(dt, 1)
      [] frequency = weekly -> plus_days(dt, 7)
      [] frequency = monthly -> advance_month(dt)
      [] OTHER -> NoTime

\* current after n rounds of "current = _increment_schedule_time(current)"
RECURSIVE incremented(_, _, _)
\* n more rounds from the time reached half way
incremented_on(half_way, frequency, n) ==
    IF half_way = NoTime THEN NoTime
    ELSE incremented(half_way, frequency, n)
incremented(current, frequency, n) ==
    IF n = 0 THEN current
    ELSE IF n = 1 THEN increment_schedule_time(current, frequency)
    ELSE incremented_on(incremented(current, frequency, n \div 2), frequency,
                        n - (n \div 2))

\* the first of the rounds p, 2p, 4p, .. after which current > reference,
\* or left when none of those below left is
RECURSIVE first_power(_, _, _, _, _)
first_power(current, frequency, reference, p, left) ==
    IF p >= left THEN left
    ELSE IF After(incremented(current, frequency, p), reference) THEN p
    ELSE first_power(current, frequency, reference, 2 * p, left)

\* the first round in lo..hi after which current > reference, round hi
\* being one (every increment moves current forward)
RECURSIVE first_round(_, _, _, _, _)
first_round(current, frequency, reference, lo, hi) ==
    IF lo >= hi THEN hi
    ELSE IF After(incremented(current, frequency, (lo + hi) \div 2), reference)
    THEN first_round(current, frequency, reference, lo, (lo + hi) \div 2)
    ELSE first_round(current, frequency, reference, ((lo + hi) \div 2) + 1, hi)

next_after_upto(current, frequency, reference, hi) ==
    IF After(incremented(current, frequency, hi), reference)
    THEN incremented(current, frequency,
                     first_round(current, frequency, reference, 1, hi))
    ELSE NoTime

\* the loop "for _ in range(512)" of _determine_next_run: the candidate of
\* the first round after which current > reference, None when there is none
\* among the left rounds
next_after(current, frequency, reference, left) ==
    IF left = 0 THEN NoTime
    ELSE next_after_upto(current, frequency, reference,
                         first_power(current, frequency, reference, 1, left))

determine_next_run(start, frequency, now) ==
    IF frequency \notin SCHEDULE_FREQUENCIES THEN NoTime
    ELSE IF After(start, now) THEN start
    ELSE next_after(start, frequency, now, IncrementCap)

\* start_date of the request: absent, a text no format parses, or a text
\* "%Y-%m-%d" with these fields
NoText == [kind |-> "null"]
DateText(y, m, d) == [kind |-> "date", y |-> y, m |-> m, d |-> d]
Unparseable == [kind |-> "text"]

parse_start_date(value, now) ==
    IF value.kind = "date" /\ ValidYMD(value.y, value.m, value.d)
    THEN <<value.y, value.m, value.d>>
    ELSE now

Request(vendor_id, frequency, start_date) ==
    [vendor_id |-> vendor_id, frequency |-> frequency, start_date |-> start_date]
V1_sp == Txt(<<"V", "1", " ">>)
StartRawPool ==
    {NoText, Unparseable, DateText(2024, 12, 31), DateText(2025, 2, 30),
     DateText(2025, 3, 1)}
\* request bodies: a vendor and a frequency the endpoint accepts with every
\* start date, and bodies whose vendor, frequency or both it does not accept
RequestPool ==
    {Request(V1_sp, Txt(frequency), start_date) :
        frequency \in {daily, WEEKLY_sp, monthly}, start_date \in StartRawPool}
    \cup {Request(vendor_id, Txt(daily), DateText(2025, 3, 1)) :
        vendor_id \in {NoText, Txt(<<" ">>)}}
    \cup {Request(V1_sp, frequency, DateText(2025, 3, 1)) :
        frequency \in {NoText, Txt(hourly)}}
    \cup {Request(NoText, NoText, NoText)}
NowPool == {<<2025, 1, 15>>, <<2025, 2, 28>>}

\* str(uuid.uuid4()) of the n-th schedule
ScheduleId(n) == "s" \o ToString(n)
IdPool == {ScheduleId(n) : n \in 0..MaxSchedules}

\* the schedule dict scheduler_create builds
new_schedule(id, vendor_id, frequency, start_at, created_at) ==
    [id |-> id, vendor_id |-> vendor_id, frequency |-> frequency,
     start_at |-> start_at, created_at |-> created_at,
     next_run_at |-> determine_next_run(start_at, frequency, created_at),
     last_run_at |-> NoTime, last_run_id |-> ""]

create_rejected(data) ==
    /\ sc_last' = [op |-> "create", request |-> data, status |-> 400]
    /\ UNCHANGED <<sc_store, sc_created>>

create_stored(data, schedule) ==
    /\ sc_store' = Append(sc_store, schedule)
    /\ sc_created' = sc_created \cup {schedule.id}
    /\ sc_last' = [op |-> "create", request |-> data, status |-> 201,
                   schedule |-> schedule]

\* POST /api/scheduler
scheduler_create(data) ==
    /\ Cardinality(sc_created) < MaxSchedules
    /\ IF strip(str_or_empty(data.vendor_id)) = <<>>
          \/ lower(strip(str_or_empty(data.frequency))) \notin SCHEDULE_FREQUENCIES
       THEN create_rejected(data)
       ELSE create_stored(data,
                new_schedule(ScheduleId(Cardinality(sc_created) + 1),
                             strip(str_or_empty(data.vendor_id)),
                             lower(strip(str_or_empty(data.frequency))),
                             parse_start_date(data.start_date, sc_now), sc_now))
    /\ UNCHANGED <<sc_now, sc_deleted, sc_fired>>

\* GET /api/scheduler
scheduler_list ==
    /\ sc_last' = [op |-> "list", status |-> 200, schedules |-> sc_store]
    /\ UNCHANGED <<sc_now, sc_store, sc_created, sc_deleted, sc_fired>>

remaining_mut_first(schedules, schedule_id) ==
    IF \E k \in 1..Len(schedules) : schedules[k].id = schedule_id
    THEN Tail(schedules) ELSE schedules

\* [entry for entry in schedules if entry.get("id") != schedule_id]
remaining(schedules, schedule_id) ==
    LET keep(entry) == entry.id # schedule_id
    IN  SelectSeq(schedules, keep)

\* DELETE /api/scheduler/<schedule_id>
scheduler_delete(schedule_id) ==
    /\ IF Len(remaining(sc_store, schedule_id)) = Len(sc_store)
       THEN /\ sc_last' = [op |-> "delete", id |-> schedule_id, status |-> 404]
            /\ UNCHANGED <<sc_store, sc_deleted>>
       ELSE /\ sc_store' = remaining(sc_store, schedule_id)
            /\ sc_deleted' = sc_deleted \cup {schedule_id}
            /\ sc_last' = [op |-> "delete", id |-> schedule_id, status |-> 204]
    /\ UNCHANGED <<sc_now, sc_created, sc_fired>>

\* the schedule is due at now
Due(schedule, now) ==
    /\ schedule.frequency \in SCHEDULE_FREQUENCIES
    /\ schedule.next_run_at # NoTime
    /\ ~After(schedule.next_run_at, now)

\* the run id _trigger_scheduled_run returns for the n-th run it starts
scheduled_run_id(n) == "run" \o ToString(n)

\* how many of the first k schedules are due at now
due_before(schedules, now, k) ==
    Cardinality({j \in 1..k : Due(schedules[j], now)})

polled_mut_keep_next(schedule, now, run_id) ==
    IF Due(schedule, now)
    THEN [schedule EXCEPT !.last_run_at = now, !.last_run_id = run_id]
    ELSE schedule

\* body of the poll loop for one schedule; run_id is the run started for it
polled(schedule, now, run_id) ==
    IF Due(schedule, now)
    THEN [schedule EXCEPT !.last_run_at = now,
                          !.last_run_id = run_id,
                          !.next_run_at = determine_next_run(schedule.next_run_at,
                                                             schedule.frequency, now)]
    ELSE schedule

\* the runs one poll starts, after started earlier ones
fired_by_poll(schedules, now, started) ==
    LET due(schedule) == Due(schedule, now)
        hit == SelectSeq(schedules, due)
    IN  [k \in 1..Len(hit) |->
            [schedule |-> hit[k].id, at |-> now,
             run |-> scheduled_run_id(started + k)]]

\* _poll_schedules: under SCHEDULE_LOCK every due schedule starts a run and
\* gets its next_run_at; the store is written back when one was due
poll_schedules ==
    /\ \E k \in 1..Len(sc_store) : Due(sc_store[k], sc_now)
    /\ Len(sc_fired) + Len(fired_by_poll(sc_store, sc_now, Len(sc_fired))) <= MaxFired
    /\ sc_store' = [k \in 1..Len(sc_store) |->
                       polled(sc_store[k], sc_now,
                              scheduled_run_id(Len(sc_fired)
                                  + due_before(sc_store, sc_now, k)))]
    /\ sc_fired' = sc_fired \o fired_by_poll(sc_store, sc_now, Len(sc_fired))
    /\ sc_last' = [op |-> "none"]
    /\ UNCHANGED <<sc_now, sc_created, sc_deleted>>

\* time passes
ScTick ==
    /\ \E now \in NowPool : After(now, sc_now) /\ sc_now' = now
    /\ sc_last' = [op |-> "none"]
    /\ UNCHANGED <<sc_store, sc_created, sc_deleted, sc_fired>>

ScInit == ScAtRest

InitScheduler == ScInit /\ ScOthersAtRest
NextScheduler ==
    /\ \/ \E data \in RequestPool : scheduler_create(data)
       \/ scheduler_list
       \/ \E schedule_id \in IdPool : scheduler_delete(schedule_id)
       \/ poll_schedules
       \/ ScTick
    /\ UNCHANGED ScOthers
SpecScheduler == InitScheduler /\ [][NextScheduler]_vars

(***************************************************************************)
(* Vocabulary of the scheduler API claim                                   *)
(***************************************************************************)
StoredIds == {sc_store[k].id : k \in 1..Len(sc_store)}
VendorMissing(data) == data.vendor_id.kind # "str" \/ strip(data.vendor_id.chars) = <<>>
FrequencyNamed(data) ==
    /\ data.frequency.kind = "str"
    /\ lower(strip(data.frequency.chars)) \in {daily, weekly, monthly}
FutureStart(data, now) ==
    /\ data.start_date.kind = "date"
    /\ ValidYMD(data.start_date.y, data.start_date.m, data.start_date.d)
    /\ After(<<data.start_date.y, data.start_date.m, data.start_date.d>>, now)
\* the stored schedules other than id, in store order
Without(schedules, id) ==
    LET other(entry) == entry.id # id IN SelectSeq(schedules, other)

C13_StoreIsCreatedNotDeleted ==
    /\ StoredIds = sc_created \ sc_deleted
    /\ \A j, k \in 1..Len(sc_store) : j # k => sc_store[j].id # sc_store[k].id

\* the step answers the create request data
C13_CreateStep(data) ==
    /\ sc_last'.status \in {201, 400}
    /\ sc_last'.status = 400 <=> (VendorMissing(data) \/ ~FrequencyNamed(data))
    /\ sc_last'.status = 400 => sc_store' = sc_store
    /\ sc_last'.status = 201 =>
          /\ sc_store' = Append(sc_store, sc_last'.schedule)
          /\ sc_last'.schedule.id \notin sc_created
          /\ (FutureStart(data, sc_now) => sc_last'.schedule.next_run_at # NoTime)

\* the step answers the delete request for schedule_id
C13_DeleteStep(schedule_id) ==
    /\ sc_last'.status \in {204, 404}
    /\ sc_last'.status = 404 <=> schedule_id \notin StoredIds
    /\ sc_last'.status = 404 => sc_store' = sc_store
    /\ sc_last'.status = 204 =>
          /\ sc_store' = Without(sc_store, schedule_id)
          /\ Len(sc_store') = Len(sc_store) - 1

C13_ListStep ==
    /\ sc_last'.status = 200
    /\ sc_last'.schedules = sc_store
    /\ sc_store' = sc_store

\* C13: the store (and the list endpoint) holds exactly the schedules
\* created with 201 and not yet deleted, one entry per id.  A create
\* answered 201 appends one schedule with an id never given before, with a
\* next_run_at when the start date is in the future; a delete answered 204
\* removes exactly the entry with the id; a request answered 400 (vendor_id
\* missing, frequency not daily/weekly/monthly) or 404 (unknown id) leaves
\* the store as it was.
C13_SchedulerApi ==
    /\ [](C13_StoreIsCreatedNotDeleted)
    /\ [][/\ sc_last'.op = "create" => C13_CreateStep(sc_last'.request)
          /\ sc_last'.op = "delete" => C13_DeleteStep(sc_last'.id)
          /\ sc_last'.op = "list" => C13_ListStep]_vars

C13_Witness ==
    /\ sc_last.op = "delete"
    /\ sc_last.status = 204
    /\ sc_last.id = ScheduleId(1)
    /\ sc_created = {ScheduleId(1), ScheduleId(2)}
    /\ StoredIds = {ScheduleId(2)}
    /\ sc_store[1].next_run_at = <<2025, 3, 1>>
    /\ sc_store[1].frequency = weekly

(***************************************************************************)
(* The scheduler loop over the schedules a start finds on file             *)
(* (_scheduler_loop, _poll_schedules in src/app.py)                        *)
(***************************************************************************)
\* instants at which the loop polls; the last is more than 512 days after
\* every start date of StoredStartPool
PollNowPool == NowPool \cup {<<2027, 1, 1>>}
StoredStartPool == {<<2023, 1, 1>>, <<2024, 12, 31>>, <<2025, 1, 15>>, <<2025, 3, 1>>}
\* schedules.json as scheduler_create calls at 2025-01-15 left it
StoredSchedulePool ==
    {new_schedule("", <<"V", "1">>, frequency, start_at, <<2025, 1, 15>>) :
        frequency \in SCHEDULE_FREQUENCIES, start_at \in StoredStartPool}
StoredUpTo(n) ==
    UNION {[1..m -> StoredSchedulePool] : m \in 1..n}
with_ids(schedules) ==
    [k \in 1..Len(schedules) |-> [schedules[k] EXCEPT !.id = ScheduleId(k)]]

PollInit ==
    /\ sc_now = <<2025, 1, 15>>
    /\ \E schedules \in StoredUpTo(MaxSchedules) :
          /\ sc_store = with_ids(schedules)
          /\ sc_created = {ScheduleId(k) : k \in 1..Len(schedules)}
    /\ sc_deleted = {}
    /\ sc_fired = <<>>
    /\ sc_last = [op |-> "none"]

\* SCHEDULER_STOP.wait(SCHEDULER_POLL_SECONDS) between two polls
poll_wait ==
    /\ \E now \in PollNowPool : After(now, sc_now) /\ sc_now' = now
    /\ sc_last' = [op |-> "none"]
    /\ UNCHANGED <<sc_store, sc_created, sc_deleted, sc_fired>>

InitPoll == PollInit /\ ScOthersAtRest
NextPoll ==
    /\ \/ poll_schedules
       \/ poll_wait
    /\ UNCHANGED ScOthers
SpecPoll == InitPoll /\ [][NextPoll]_vars

(***************************************************************************)
(* Vocabulary of the poll claim                                            *)
(***************************************************************************)
\* the runs of sc_fired' this step started for the schedule id
StartedFor(id) ==
    {n \in (Len(sc_fired) + 1)..Len(sc_fired') : sc_fired'[n].schedule = id}
\* the runs started so far for the schedule id
RunsOf(id) == {n \in 1..Len(sc_fired) : sc_fired[n].schedule = id}

\* the step is a poll at sc_now that fired the k-th schedule
C29_Fired(k) ==
    /\ Cardinality(StartedFor(sc_store[k].id)) = 1
    /\ \A n \in StartedFor(sc_store[k].id) :
          /\ sc_fired'[n].at = sc_now
          /\ sc_store'[k].last_run_id = sc_fired'[n].run
    /\ sc_store'[k].last_run_at = sc_now
    /\ \/ sc_store'[k].next_run_at = NoTime
       \/ After(sc_store'[k].next_run_at, sc_now)

\* C29: a poll at now starts exactly one run for every schedule that is
\* due (frequency daily, weekly or monthly and next_run_at <= now), however
\* many periods have elapsed, sets its last_run_at to now and its
\* last_run_id to the id of that run, and stores a next_run_at that is null
\* or later than now; it leaves the schedules that are not due as they
\* were and starts no run for them.  After the poll no schedule is due at
\* the same instant, and a schedule whose next_run_at is null stays as it
\* is and gets no run in any step.
C29_PollFiresOncePerDueSchedule ==
    [][/\ Len(sc_store') = Len(sc_store)
       /\ \A k \in 1..Len(sc_store) :
             /\ sc_fired' # sc_fired =>
                   IF Due(sc_store[k], sc_now)
                   THEN C29_Fired(k)
                   ELSE /\ sc_store'[k] = sc_store[k]
                        /\ StartedFor(sc_store[k].id) = {}
             /\ sc_fired' # sc_fired => ~Due(sc_store'[k], sc_now')
             /\ sc_store[k].next_run_at = NoTime =>
                   /\ sc_store'[k] = sc_store[k]
                   /\ StartedFor(sc_store[k].id) = {}]_vars

\* a daily schedule whose next_run_at 2025-01-16 lay 43 days before the poll
\* of 2025-02-28 got one run and the next_run_at 2025-03-01
C29_Witness ==
    /\ sc_now = <<2025, 2, 28>>
    /\ Len(sc_fired) = 1
    /\ \E k \in 1..Len(sc_store) :
          /\ sc_store[k].frequency = daily
          /\ sc_store[k].start_at = <<2024, 12, 31>>
          /\ RunsOf(sc_store[k].id) = {1}
          /\ sc_store[k].last_run_at = <<2025, 2, 28>>
          /\ sc_store[k].last_run_id = sc_fired[1].run
          /\ sc_store[k].next_run_at = <<2025, 3, 1>>

\* the poll of 2027-01-01 fired a daily schedule whose next_run_at lay more
\* than 512 days back: its next_run_at is null from then on
C29_WitnessNull ==
    /\ sc_now = <<2027, 1, 1>>
    /\ \E k \in 1..Len(sc_store) :
          /\ sc_store[k].frequency = daily
          /\ RunsOf(sc_store[k].id) # {}
          /\ sc_store[k].last_run_at = <<2027, 1, 1>>
          /\ sc_store[k].next_run_at = NoTime

(***************************************************************************)
(* Ledger lookup: query_journal (src/agents/data_agent.py)                 *)
(***************************************************************************)
\* {value.strip().upper() for value in identifiers if value}
id_set_mut_nostrip(identifiers) ==
    {Upper(value) : value \in {v \in identifiers : v # <<>>}}

id_set(identifiers) ==
    {Upper(strip(value)) : value \in {v \in identifiers : v # <<>>}}

\* {row vendor_id .upper(), row invoice_id .upper(), row po_id .upper()}
normalized(row) == {Upper(row.vendor_id), Upper(row.invoice_id), Upper(row.po_id)}

\* the negation of the loop's "continue" test
row_kept(row, ids) ==
    ~(ids # {} /\ ~(\E token \in normalized(row) : token # <<>> /\ token \in ids))

\* the dict appended to matched
matched_entry(row) ==
    [entry_id |-> row.entry_id, vendor_id |-> row.vendor_id,
     invoice_id |-> row.invoice_id, po_id |-> row.po_id]

matched_rows(rows, ids) ==
    LET kept(row) == row_kept(row, ids)
        hit == SelectSeq(rows, kept)
    IN  [k \in 1..Len(hit) |-> matched_entry(hit[k])]

query_journal(identifiers, csv) ==
    IF ~csv.exists THEN [called |-> TRUE, rows |-> <<>>]
    ELSE [called |-> TRUE, rows |-> matched_rows(csv.rows, id_set(identifiers))]

IdentifierPool ==
    {<<>>, <<" ">>, <<"v", "1">>, <<" ", "V", "1", " ">>, <<"I", "7">>, <<"p", "2">>}
LedgerPool ==
    {[entry_id |-> 0, vendor_id |-> <<"V", "1">>, invoice_id |-> <<"I", "7">>, po_id |-> <<>>],
     [entry_id |-> 0, vendor_id |-> <<"v", "1">>, invoice_id |-> <<"I", "8">>, po_id |-> <<"P", "2">>],
     [entry_id |-> 0, vendor_id |-> <<"V", "3">>, invoice_id |-> <<>>, po_id |-> <<"P", "2">>],
     [entry_id |-> 0, vendor_id |-> <<"V", "1", " ">>, invoice_id |-> <<"I", "9">>, po_id |-> <<" ">>]}

QjInit ==
    /\ \/ qj_csv = [exists |-> FALSE]
       \/ \E s \in SeqsUpTo(LedgerPool, MaxLedgerRows) :
            qj_csv = [exists |-> TRUE, rows |-> Numbered(s, "entry_id")]
    /\ qj_identifiers \in {S \in SUBSET IdentifierPool : Cardinality(S) <= MaxIdentifiers}
    /\ qj_result = NotCalled

\* journal_rows = query_journal(identifiers)
QueryJournal ==
    /\ ~qj_result.called
    /\ qj_result' = query_journal(qj_identifiers, qj_csv)
    /\ UNCHANGED <<qj_csv, qj_identifiers>>

InitQueryJournal == QjInit /\ QjOthersAtRest
NextQueryJournal == QueryJournal /\ UNCHANGED QjOthers
SpecQueryJournal == InitQueryJournal /\ [][NextQueryJournal]_vars

(***************************************************************************)
(* Vocabulary of the ledger lookup claim                                   *)
(***************************************************************************)
\* the dataset: the rows of the file, none when there is no file
Dataset == IF qj_csv.exists THEN qj_csv.rows ELSE <<>>
RowFields(row) == {row.vendor_id, row.invoice_id, row.po_id}
SameIgnoringCase(a, b) == Upper(a) = Upper(b)
\* the rows of the dataset that satisfy Wanted, in dataset order
RowsWhere(Wanted(_)) ==
    LET hit == SelectSeq(Dataset, Wanted)
    IN  [k \in 1..Len(hit) |-> matched_entry(hit[k])]

EqualsSomeIdentifier(row) ==
    \E field \in RowFields(row), identifier \in qj_identifiers :
        SameIgnoringCase(field, identifier)

\* C14 as stated: the rows one of whose vendor_id, invoice_id, po_id equals,
\* ignoring case, some identifier of the set; every row when the set is empty.
C14_Original ==
    qj_result.called =>
        qj_result.rows = IF qj_identifiers = {} THEN RowsWhere(LAMBDA row : TRUE)
                         ELSE RowsWhere(EqualsSomeIdentifier)

\* the identifiers that count: the non-empty ones, without surrounding blanks
Asked == {strip(identifier) : identifier \in qj_identifiers \ {<<>>}}
EqualsSomeAsked(row) ==
    \E field \in RowFields(row) \ {<<>>}, identifier \in Asked :
        SameIgnoringCase(field, identifier)

\* C14: query_journal returns, in dataset order, the rows one of whose
\* non-empty vendor_id, invoice_id, po_id equals, ignoring case, some
\* non-empty identifier with its surrounding blanks removed; it returns
\* every row when the set holds no non-empty identifier.
C14_QueryJournal ==
    qj_result.called =>
        qj_result.rows = IF Asked = {} THEN RowsWhere(LAMBDA row : TRUE)
                         ELSE RowsWhere(EqualsSomeAsked)

C14_Witness ==
    /\ qj_result.called
    /\ qj_identifiers = {<<" ", "V", "1", " ">>, <<>>}
    /\ Len(Dataset) = 2
    /\ Dataset[1].vendor_id = <<"V", "3">>
    /\ Dataset[2].vendor_id = <<"v", "1">>
    /\ Len(qj_result.rows) = 1
    /\ qj_result.rows[1].entry_id = 2

(***************************************************************************)
(* reconcile called twice on the same input.  _id_match builds the text    *)
(* of its note by iterating over the set doc_tokens; the order in which a  *)
(* set of strings is iterated follows the strings' hashes, which the       *)
(* interpreter salts with a seed drawn when the process starts.            *)
(***************************************************************************)
\* the identifiers of the inputs below
HashedTokens == {V1, I1, P1}

\* the orders in which a process may iterate over a set of these strings
SeedPool ==
    {seed \in [1..Cardinality(HashedTokens) -> HashedTokens] :
        \A j, k \in DOMAIN seed : j # k => seed[j] # seed[k]}

\* [token for token in doc_tokens if ...]: the set's members in iteration order
iteration_order(tokens, seed) ==
    LET member(token) == token \in tokens
    IN  SelectSeq(seed, member)

\* f"ID match on {', '.join(overlap)}"
joined(comment, seed) ==
    IF comment.kind = "id_match"
    THEN [kind |-> "id_match", overlap |-> iteration_order(comment.tokens, seed)]
    ELSE comment

rationale_text(rationale, seed) ==
    [k \in 1..Len(rationale) |-> joined(rationale[k], seed)]

linked_text(linked, seed) ==
    [k \in 1..Len(linked) |->
        [document |-> linked[k].document,
         rationale |-> rationale_text(linked[k].rationale, seed)]]

matches_text(matches, seed) ==
    [k \in 1..Len(matches) |->
        [ledger_entry |-> matches[k].ledger_entry,
         documents |-> linked_text(matches[k].documents, seed)]]

\* the dict reconcile returns in a process whose hash seed is seed
reconcile_text(out, seed) ==
    [called |-> TRUE, matches |-> matches_text(out.matches, seed),
     anomalies |-> out.anomalies]

RerunRowPool ==
    { Row(V1, I1, P1, 100000, D_2025_01_10),
      Row(v1, Empty, Empty, 100000, D_2025_01_10),
      Row(V1, I1, Empty, 20, D_Blank) }

RerunDocPool ==
    { Doc(V1, I1, P1, 100500, D_2025_01_12),
      Doc(V1, i1, Empty, 120000, D_2025_01_12),
      Doc(Empty, Empty, P1, 100000, D_2025_01_10) }

RrInit ==
    /\ hash_seed \in SeedPool
    /\ \E s \in SeqsUpTo(RerunDocPool, MaxDocs) : rr_documents = Numbered(s, "filename")
    /\ \E s \in SeqsUpTo(RerunRowPool, MaxRows) : rr_rows = Numbered(s, "entry_id")
    /\ rr_first = NotCalled
    /\ rr_second = NotCalled

\* first = reconcile(documents, journal_rows); docs = list(documents) and
\* rows = list(journal_rows) are copies, and no row or document is assigned to
FirstCall ==
    /\ ~rr_first.called
    /\ rr_first' = reconcile_text(reconcile(rr_documents, rr_rows), hash_seed)
    /\ UNCHANGED <<hash_seed, rr_documents, rr_rows, rr_second>>

\* the process ends and the program is started again on the same input
NewProcess ==
    /\ rr_first.called
    /\ ~rr_second.called
    /\ \E seed \in SeedPool : seed # hash_seed /\ hash_seed' = seed
    /\ UNCHANGED <<rr_documents, rr_rows, rr_first, rr_second>>

\* second = reconcile(documents, journal_rows)
SecondCall ==
    /\ rr_first.called
    /\ ~rr_second.called
    /\ rr_second' = reconcile_text(reconcile(rr_documents, rr_rows), hash_seed)
    /\ UNCHANGED <<hash_seed, rr_documents, rr_rows, rr_first>>

InitRerun == RrInit /\ RrOthersAtRest
NextRerun ==
    /\ \/ FirstCall
       \/ NewProcess
       \/ SecondCall
    /\ UNCHANGED RrOthers
SpecRerun == InitRerun /\ [][NextRerun]_vars

\* C15: a second call of reconcile on the same documents and journal rows
\* returns the matches and anomalies of the first call: same elements, same
\* order, same rationale and reason texts.
C15_SecondCallSameAsFirst ==
    rr_second.called =>
        /\ rr_second.matches = rr_first.matches
        /\ rr_second.anomalies = rr_first.anomalies

(***************************************************************************)
(* Summary synthesis: SummaryAgent.generate and _render_markdown           *)
(* (src/agents/summary_agent.py).  Confidences are in thousandths, the     *)
(* coverage ratio in hundredths.                                           *)
(***************************************************************************)
\* a / b of two numbers
truediv(a, b) ==
    IF b = 0 THEN [raised |-> "ZeroDivisionError"]
    ELSE [raised |-> "none", num |-> a, den |-> b]

\* the multiple of 1/scale nearest to num/den, ties to the even one
nearest(num, den, scale) ==
    LET low == (num * scale) \div den
        rest == (num * scale) % den
    IN  IF 2 * rest > den \/ (2 * rest = den /\ low % 2 = 1) THEN low + 1 ELSE low

\* round(quotient, ndigits) as a count of 1/scale of the quotient's unit (the
\* confidences are thousandths already); an exception goes through
round_to(quotient, scale) ==
    IF quotient.raised # "none" THEN quotient
    ELSE [raised |-> "none", value |-> nearest(quotient.num, quotient.den, scale)]

Zero == [raised |-> "none", value |-> 0]

RECURSIVE SumSeq(_)
SumSeq(s) == IF s = <<>> THEN 0 ELSE Head(s) + SumSeq(Tail(s))

RECURSIVE Flatten(_)
Flatten(ss) == IF ss = <<>> THEN <<>> ELSE Head(ss) \o Flatten(Tail(ss))

\* the totals of the bundle, or the exception that came up on the way
totals(entries, docs, coverage, avg_conf) ==
    IF coverage.raised # "none" THEN [called |-> TRUE, raised |-> coverage.raised]
    ELSE IF avg_conf.raised # "none" THEN [called |-> TRUE, raised |-> avg_conf.raised]
    ELSE [called |-> TRUE, raised |-> "none", journal_entries |-> entries,
          documents |-> docs, coverage_ratio |-> coverage.value,
          average_confidence |-> avg_conf.value]

\* generate: coverage = 0.0; if doc_rows and journal_rows: coverage = round(.., 2)
generate_coverage(n_doc_rows, n_journal_rows) ==
    IF n_doc_rows # 0 /\ n_journal_rows # 0
    THEN round_to(truediv(n_doc_rows, n_journal_rows), 100)
    ELSE Zero

\* round(mean(confidences), 3) if confidences else 0.0
generate_avg_conf(confidences) ==
    IF confidences # <<>>
    THEN round_to(truediv(SumSeq(confidences), Len(confidences)), 1)
    ELSE Zero

\* SummaryAgent.generate: one journal row for each match, one document row
\* and one confidence for each document of each match
generate(matches) ==
    totals(Len(matches), Len(Flatten(matches)),
           generate_coverage(Len(Flatten(matches)), Len(matches)),
           generate_avg_conf(Flatten(matches)))

render_coverage_mut_unguarded(docs, journal) ==
    round_to(truediv(Len(docs), Len(journal)), 100)

\* round(len(docs) / len(journal), 2) if journal else 0.0
render_coverage(docs, journal) ==
    IF journal # <<>> THEN round_to(truediv(Len(docs), Len(journal)), 100) ELSE Zero

\* avg_conf = 0.0; if confidences: avg_conf = round(sum / len, 3)
render_avg_conf(confidences) ==
    IF confidences # <<>>
    THEN round_to(truediv(SumSeq(confidences), Len(confidences)), 1)
    ELSE Zero

\* _render_markdown: the figures it passes to _mock_summary
render_markdown(context) ==
    totals(Len(context.journal_entries), Len(context.documents),
           render_coverage(context.documents, context.journal_entries),
           render_avg_conf(context.documents))

\* extraction confidences of a document, in thousandths
ConfidencePool == {900, 750}
\* amounts of a journal entry, in cents
JournalAmountPool == {100000}

\* a match is given by the confidences of its documents; a context by the
\* confidences of its documents and the amounts of its journal entries
MatchPool == SeqsUpTo(ConfidencePool, MaxDocs)
SmInputs ==
    {[fn |-> "generate", matches |-> matches] : matches \in SeqsUpTo(MatchPool, MaxRows)}
    \cup {[fn |-> "render_markdown",
           context |-> [documents |-> docs, journal_entries |-> journal]] :
            docs \in SeqsUpTo(ConfidencePool, MaxDocs),
            journal \in SeqsUpTo(JournalAmountPool, MaxRows)}

SmInit ==
    /\ sm_input \in SmInputs
    /\ sm_result = NotCalled

Generate ==
    /\ sm_input.fn = "generate"
    /\ ~sm_result.called
    /\ sm_result' = generate(sm_input.matches)
    /\ UNCHANGED sm_input

RenderMarkdown ==
    /\ sm_input.fn = "render_markdown"
    /\ ~sm_result.called
    /\ sm_result' = render_markdown(sm_input.context)
    /\ UNCHANGED sm_input

InitSummary == SmInit /\ SmOthersAtRest
NextSummary ==
    /\ \/ Generate
       \/ RenderMarkdown
    /\ UNCHANGED SmOthers
SpecSummary == InitSummary /\ [][NextSummary]_vars

\* C16: summary synthesis, by generate and by the rendering from a context,
\* raises no division error; it reports coverage ratio 0.0 when there is no
\* journal entry and average confidence 0.0 when there is no document.
C16_NoDivisionError ==
    sm_result.called =>
        /\ sm_result.raised = "none"
        /\ sm_result.journal_entries = 0 => sm_result.coverage_ratio = 0
        /\ sm_result.documents = 0 => sm_result.average_confidence = 0

C16_Witness ==
    /\ sm_result.called
    /\ sm_input.fn = "render_markdown"
    /\ Len(sm_input.context.documents) = 2
    /\ sm_input.context.journal_entries = <<>>
    /\ sm_result.coverage_ratio = 0
    /\ sm_result.average_confidence = 825

(***************************************************************************)
(* Intent parsing: parse_intent and _extract_tokens                        *)
(* (src/nlu/intent_parser.py), and the adapter's parse_intent              *)
(* (src/mcp_adapters/llm_adapter.py).  Of the payload the identifier lists *)
(* are kept; a text is a sequence of characters.                           *)
(***************************************************************************)
IsDigit(c) == c \in {"0", "1", "2", "3", "4", "5", "6", "7", "8", "9"}
IsLetter(c) ==
    c \in {"A", "B", "C", "D", "E", "F", "G", "H", "I", "J", "K", "L", "M", "N", "O", "P", "Q", "R", "S", "T", "U", "V", "W", "X", "Y", "Z",
           "a", "b", "c", "d", "e", "f", "g", "h", "i", "j", "k", "l", "m", "n", "o", "p", "q", "r", "s", "t", "u", "v", "w", "x", "y", "z"}
\* \w
IsWord(c) == IsDigit(c) \/ IsLetter(c) \/ c = "_"

\* the literal parts of _VENDOR_PATTERN, _INVOICE_PATTERN, _PO_PATTERN
VENDOR_PATTERN == <<"V", "E", "N", "D", "-">>
INVOICE_PATTERN == <<"I", "N", "V", "-">>
PO_PATTERN == <<"P", "O", "-">>

\* \b at the gap before position i of text
boundary(text, i) ==
    LET before == i > 1 /\ IsWord(text[i - 1])
        after == i <= Len(text) /\ IsWord(text[i])
    IN  before # after

\* the literal matches at position i, ignoring case
literal_at(literal, text, i) ==
    /\ i + Len(literal) - 1 <= Len(text)
    /\ \A k \in 1..Len(literal) : UpperChar(text[i + k - 1]) = literal[k]

\* the last position of the longest run of digits that starts at position s
digits_end(text, s) ==
    CHOOSE j \in s..Len(text) :
        /\ \A k \in s..j : IsDigit(text[k])
        /\ j = Len(text) \/ ~IsDigit(text[j + 1])

\* where the match of \b<literal>\d+\b that starts at position i ends, 0 when
\* there is none (a shorter run of digits ends between two digits, where
\* there is no \b)
match_end(literal, text, i) ==
    IF /\ boundary(text, i)
       /\ literal_at(literal, text, i)
       /\ i + Len(literal) <= Len(text)
       /\ IsDigit(text[i + Len(literal)])
       /\ boundary(text, digits_end(text, i + Len(literal)) + 1)
    THEN digits_end(text, i + Len(literal))
    ELSE 0

\* the first position from i on where the pattern matches, 0 when there is none
next_start(literal, text, i) ==
    LET starts == {j \in i..Len(text) : match_end(literal, text, j) > 0}
    IN  IF starts = {} THEN 0 ELSE CHOOSE j \in starts : \A k \in starts : j <= k

RECURSIVE findall(_, _, _)
\* the match that starts at position s and those after it
findall_from(literal, text, s) ==
    IF s = 0 THEN <<>>
    ELSE <<SubSeq(text, s, match_end(literal, text, s))>>
         \o findall(literal, text, match_end(literal, text, s) + 1)

\* pattern.findall(text), scanning from position i
findall(literal, text, i) == findall_from(literal, text, next_start(literal, text, i))

InSeq(x, s) == \E k \in 1..Len(s) : s[k] = x

RECURSIVE unique_tokens_mut_raw(_, _)
unique_tokens_mut_raw(matches, tokens) ==
    IF matches = <<>> THEN tokens
    ELSE unique_tokens_mut_raw(Tail(matches),
            IF InSeq(Head(matches), tokens) THEN tokens
            ELSE Append(tokens, Upper(Head(matches))))

RECURSIVE unique_tokens(_, _)
\* the loop of _extract_tokens over the matches left, tokens being the list so far
unique_tokens(matches, tokens) ==
    IF matches = <<>> THEN tokens
    ELSE unique_tokens(Tail(matches),
            IF InSeq(Upper(Head(matches)), tokens) THEN tokens
            ELSE Append(tokens, Upper(Head(matches))))

extract_tokens(literal, text) == unique_tokens(findall(literal, text, 1), <<>>)

\* ParsedIntent(...).asdict() of an empty text
empty_intent ==
    [called |-> TRUE, raised |-> "none",
     entities |-> [vendor_ids |-> <<>>, invoice_ids |-> <<>>, po_ids |-> <<>>]]

\* the rule-based branch of parse_intent
rule_based_intent(text) ==
    [called |-> TRUE, raised |-> "none",
     entities |-> [vendor_ids |-> extract_tokens(VENDOR_PATTERN, text),
                   invoice_ids |-> extract_tokens(INVOICE_PATTERN, text),
                   po_ids |-> extract_tokens(PO_PATTERN, text)]]

\* llm_adapter.parse_intent(text)
adapter_intent(text) ==
    [called |-> TRUE, raised |-> "none",
     entities |-> [vendors |-> extract_tokens(VENDOR_PATTERN, text),
                   invoices |-> extract_tokens(INVOICE_PATTERN, text),
                   purchase_orders |-> extract_tokens(PO_PATTERN, text)]]

parse_intent(nl_text, use_llm, adapter) ==
    IF strip(nl_text) = <<>> THEN empty_intent
    ELSE IF use_llm /\ adapter = "present" THEN adapter_intent(strip(nl_text))
    ELSE rule_based_intent(strip(nl_text))

\* the pieces texts are made of
PiecePool ==
    {<<"V", "E", "N", "D", "-", "1">>, <<"i", "n", "v", "-", "7">>,
     <<"P", "O", "-", "3">>, <<"p", "o", "-", "3", " ">>, <<"P", "O", "-", "4", " ">>,
     <<"P", "O", "-">>, <<"4">>, <<" ">>, <<"x">>}

TextPool == {Flatten(pieces) : pieces \in SeqsUpTo(PiecePool, MaxPieces)}

PiInit ==
    /\ pi_text \in TextPool
    /\ pi_use_llm \in BOOLEAN
    /\ pi_adapter \in {"absent", "present", "raising"}
    /\ pi_result = NotCalled

ParseIntent ==
    /\ ~pi_result.called
    /\ pi_result' = parse_intent(pi_text, pi_use_llm, pi_adapter)
    /\ UNCHANGED <<pi_text, pi_use_llm, pi_adapter>>

InitParseIntent == PiInit /\ PiOthersAtRest
NextParseIntent == ParseIntent /\ UNCHANGED PiOthers
SpecParseIntent == InitParseIntent /\ [][NextParseIntent]_vars

(***************************************************************************)
(* Vocabulary of the identifier list claim                                 *)
(***************************************************************************)
\* the matches of a category's pattern in the text handed in, upper-cased
UpperMatches(literal) ==
    LET found == findall(literal, strip(pi_text), 1)
    IN  [k \in 1..Len(found) |-> Upper(found[k])]
FirstAt(x, s) == CHOOSE k \in 1..Len(s) : s[k] = x /\ \A j \in 1..(k - 1) : s[j] # x
\* list holds each member of from once, ordered by first occurrence in from
DedupedInOrder(list, from) ==
    /\ {list[k] : k \in 1..Len(list)} = {from[k] : k \in 1..Len(from)}
    /\ \A j, k \in 1..Len(list) : j < k => FirstAt(list[j], from) < FirstAt(list[k], from)
\* the identifier lists of the payload, by category
ListsOf(entities) ==
    IF "vendor_ids" \in DOMAIN entities
    THEN <<entities.vendor_ids, entities.invoice_ids, entities.po_ids>>
    ELSE <<entities.vendors, entities.invoices, entities.purchase_orders>>

\* C17: parse_intent raises no error; each identifier list of its payload
\* holds the upper-cased matches of the category's pattern, each once, in
\* order of first occurrence in the text; a text without a match, and an
\* empty text, yield empty lists.
C17_TokenLists ==
    pi_result.called =>
        /\ pi_result.raised = "none"
        /\ DedupedInOrder(ListsOf(pi_result.entities)[1], UpperMatches(VENDOR_PATTERN))
        /\ DedupedInOrder(ListsOf(pi_result.entities)[2], UpperMatches(INVOICE_PATTERN))
        /\ DedupedInOrder(ListsOf(pi_result.entities)[3], UpperMatches(PO_PATTERN))
        /\ "vendor_ids" \in DOMAIN pi_result.entities <=>
              ~(pi_use_llm /\ pi_adapter = "present" /\ strip(pi_text) # <<>>)

C17_Witness ==
    /\ pi_result.called
    /\ ~pi_use_llm
    /\ pi_text = <<"p", "o", "-", "3", " ", "P", "O", "-", "4", " ", "P", "O", "-", "3">>
    /\ pi_result.entities.po_ids = <<<<"P", "O", "-", "3">>, <<"P", "O", "-", "4">>>>

(***************************************************************************)
(* Task planning: plan_tasks (src/agents/planner_agent.py) and the         *)
(* adapter's plan (src/mcp_adapters/llm_adapter.py).  A step is its number *)
(* and its task (its action, in the adapter's plans).                      *)
(***************************************************************************)
Steps(tasks) == [k \in 1..Len(tasks) |-> [step |-> k, task |-> tasks[k]]]

DETERMINISTIC_FALLBACK ==
    [generate_package |-> Steps(<<"doc.find_docs", "data.query_journal", "match.reconcile",
                                  "summary.stream_summary", "notify.prepare_package">>),
     send_package |-> Steps(<<"package.ensure_ready", "notify.send_package">>),
     get_summary |-> Steps(<<"summary.collect_metrics", "summary.generate_markdown">>),
     download_package |-> Steps(<<"package.locate", "package.prepare_download">>),
     general_query |-> Steps(<<"router.determine">>)]

\* parsed intents: None, a dict without "intent", a dict whose intent is
\* None (the label "None"), one of the parser's labels, or one of the
\* adapter's labels
NoIntent == [kind |-> "none"]
Intent(has_intent, intent, send_to) ==
    [kind |-> "dict", has_intent |-> has_intent, intent |-> intent, send_to |-> send_to]
IntentLabels ==
    {"generate_package", "send_package", "get_summary", "download_package",
     "general_query", "summarize_findings", "None"}
ParsedIntentPool ==
    {NoIntent}
    \cup {Intent(FALSE, "None", send_to) : send_to \in BOOLEAN}
    \cup {Intent(TRUE, intent, send_to) : intent \in IntentLabels, send_to \in BOOLEAN}

\* (parsed_intent or {}).get("intent", "general_query")
intent_key(parsed_intent) ==
    IF parsed_intent.kind = "dict" /\ parsed_intent.has_intent
    THEN parsed_intent.intent
    ELSE "general_query"

fallback_plan_mut_empty(key) ==
    IF key \in DOMAIN DETERMINISTIC_FALLBACK THEN DETERMINISTIC_FALLBACK[key]
    ELSE <<>>

\* _DETERMINISTIC_FALLBACK.get(intent_key, _DETERMINISTIC_FALLBACK["general_query"])
fallback_plan(key) ==
    IF key \in DOMAIN DETERMINISTIC_FALLBACK THEN DETERMINISTIC_FALLBACK[key]
    ELSE DETERMINISTIC_FALLBACK["general_query"]

ActionSteps(actions) == [k \in 1..Len(actions) |-> [step |-> k, action |-> actions[k]]]

\* llm_adapter.plan(parsed_intent), normalised by _normalise_plan; it raises
\* AttributeError on None
adapter_plan(parsed_intent) ==
    IF parsed_intent.kind # "dict" THEN [raised |-> "AttributeError"]
    ELSE [raised |-> "none",
          plan |-> ActionSteps(<<"gather_identifiers", "collect_documents", "analyze",
                                 "summarize">>
                               \o IF parsed_intent.send_to THEN <<"notify">> ELSE <<>>)]

planned(plan) == [called |-> TRUE, plan |-> plan]

\* the try block of plan_tasks: the adapter's plan, the static one when the
\* call raised
try_adapter(key, response) ==
    IF response.raised = "none" THEN planned(response.plan)
    ELSE planned(fallback_plan(key))

plan_tasks(parsed_intent, use_llm, adapter) ==
    IF use_llm /\ adapter = "present"
    THEN try_adapter(intent_key(parsed_intent), adapter_plan(parsed_intent))
    ELSE IF use_llm /\ adapter = "raising"
    THEN try_adapter(intent_key(parsed_intent), [raised |-> "Exception"])
    ELSE planned(fallback_plan(intent_key(parsed_intent)))

PtInit ==
    /\ pt_parsed_intent \in ParsedIntentPool
    /\ pt_use_llm \in BOOLEAN
    /\ pt_adapter \in {"absent", "present", "raising"}
    /\ pt_result = NotCalled

PlanTasks ==
    /\ ~pt_result.called
    /\ pt_result' = plan_tasks(pt_parsed_intent, pt_use_llm, pt_adapter)
    /\ UNCHANGED <<pt_parsed_intent, pt_use_llm, pt_adapter>>

InitPlanTasks == PtInit /\ PtOthersAtRest
NextPlanTasks == PlanTasks /\ UNCHANGED PtOthers
SpecPlanTasks == InitPlanTasks /\ [][NextPlanTasks]_vars

(***************************************************************************)
(* Vocabulary of the planning claim                                        *)
(***************************************************************************)
TasksOf(plan) == [k \in 1..Len(plan) |-> plan[k].task]
KnownIntents ==
    {"generate_package", "send_package", "get_summary", "download_package", "general_query"}
\* the intent named by the parsed intent, "missing" when it names none
NamedIntent ==
    IF pt_parsed_intent.kind = "dict" /\ pt_parsed_intent.has_intent
       /\ pt_parsed_intent.intent # "None"
    THEN pt_parsed_intent.intent ELSE "missing"
WithoutLlm == ~pt_use_llm \/ pt_adapter = "absent"
\* position of a task in a list of tasks
Position(task, tasks) == CHOOSE k \in 1..Len(tasks) : tasks[k] = task

\* C18: without the LLM path plan_tasks returns the plan the table holds for
\* the intent: for generate_package the tasks doc.find_docs,
\* data.query_journal, match.reconcile, summary.stream_summary,
\* notify.prepare_package in this order (both lookups before reconciliation,
\* reconciliation before summary, summary before packaging); for a missing
\* or unknown intent the plan of general_query.
C18_StaticPlan ==
    (pt_result.called /\ WithoutLlm) =>
        /\ NamedIntent \in KnownIntents =>
              pt_result.plan = DETERMINISTIC_FALLBACK[NamedIntent]
        /\ NamedIntent \notin KnownIntents =>
              pt_result.plan = DETERMINISTIC_FALLBACK["general_query"]
        /\ NamedIntent = "generate_package" =>
              /\ TasksOf(pt_result.plan) =
                    <<"doc.find_docs", "data.query_journal", "match.reconcile",
                      "summary.stream_summary", "notify.prepare_package">>
              /\ Position("doc.find_docs", TasksOf(pt_result.plan))
                    < Position("match.reconcile", TasksOf(pt_result.plan))
              /\ Position("data.query_journal", TasksOf(pt_result.plan))
                    < Position("match.reconcile", TasksOf(pt_result.plan))
              /\ Position("match.reconcile", TasksOf(pt_result.plan))
                    < Position("summary.stream_summary", TasksOf(pt_result.plan))
              /\ Position("summary.stream_summary", TasksOf(pt_result.plan))
                    < Position("notify.prepare_package", TasksOf(pt_result.plan))

C18_Witness ==
    /\ pt_result.called
    /\ ~pt_use_llm
    /\ NamedIntent = "generate_package"
    /\ Len(pt_result.plan) = 5
    /\ pt_result.plan[3].task = "match.reconcile"

(***************************************************************************)
(* Simulation run: start_simulation, _simulation_worker, stream_simulation *)
(* and cleanup_simulation (api/features_simulation.py) over the stream     *)
(* registry of api/sim_helpers.py, for one run id.                         *)
(***************************************************************************)
\* the events of a run, in the order of the worker's emit_sse_event calls
SIM_EVENTS ==
    <<"status", "documents_ready", "anomalies_detected", "chat_seeded",
      "policy_assessed", "package_ready", "reports_ready", "completed">>

\* SIM_STREAMS.setdefault(run_id, queue.Queue()): the registered object, a
\* new one when none is registered
get_stream_queue == IF SIM_STREAMS # 0 THEN SIM_STREAMS ELSE sim_created + 1
created_after_get == IF SIM_STREAMS # 0 THEN sim_created ELSE sim_created + 1

PutEntry(name, obj) == [kind |-> "put", name |-> name, obj |-> obj]
AppendEntry(type) == [kind |-> "notification", name |-> type, obj |-> 0]

\* emit_sse_event(run_id, event_type, payload)
emit_sse_event(event_type) ==
    /\ sim_items' = [sim_items EXCEPT ![get_stream_queue] = Append(@, event_type)]
    /\ SIM_STREAMS' = get_stream_queue
    /\ sim_created' = created_after_get
    /\ sim_trace' = Append(sim_trace, PutEntry(event_type, get_stream_queue))

\* _append_notification(notification_type, message)
sim_append_notification(type) ==
    sim_trace' = Append(sim_trace, AppendEntry(type))

\* clear_stream_queue(run_id), the last statement of cleanup_simulation_artifacts
clear_stream_queue == SIM_STREAMS' = 0

\* POST /api/simulations: cleanup_simulation_artifacts(run_id), thread.start()
start_simulation ==
    /\ sim_pc = "idle"
    /\ clear_stream_queue
    /\ sim_pc' = "spawned"
    /\ UNCHANGED <<sim_created, sim_items, sim_stage, sim_queue_obj, sim_lists,
                   sim_trace, sim_cleanups, sim_reader>>

\* queue_obj = get_stream_queue(run_id)
SimGetQueue ==
    /\ sim_pc = "spawned"
    /\ sim_queue_obj' = get_stream_queue
    /\ SIM_STREAMS' = get_stream_queue
    /\ sim_created' = created_after_get
    /\ sim_pc' = "status"
    /\ UNCHANGED <<sim_items, sim_stage, sim_lists, sim_trace, sim_cleanups, sim_reader>>

\* emit_sse_event(run_id, "status", ...), before the try
SimEmitStatus ==
    /\ sim_pc = "status"
    /\ emit_sse_event(SIM_EVENTS[1])
    /\ sim_stage' = 1
    /\ sim_pc' = "try"
    /\ UNCHANGED <<sim_queue_obj, sim_lists, sim_cleanups, sim_reader>>

\* the next stage of the try block returns and its event is emitted; the
\* stages of the anomalies and of the policy check fix their lists
SimStage ==
    /\ sim_pc = "try"
    /\ emit_sse_event(SIM_EVENTS[sim_stage + 1])
    /\ sim_stage' = sim_stage + 1
    /\ \E nonempty \in BOOLEAN :
         sim_lists' = CASE SIM_EVENTS[sim_stage + 1] = "anomalies_detected" ->
                             [sim_lists EXCEPT !.anomalies = nonempty]
                        [] SIM_EVENTS[sim_stage + 1] = "policy_assessed" ->
                             [sim_lists EXCEPT !.policy_violations = nonempty]
                        [] OTHER -> sim_lists
    /\ sim_pc' = IF sim_stage + 1 = Len(SIM_EVENTS) THEN "notify_complete" ELSE "try"
    /\ UNCHANGED <<sim_queue_obj, sim_cleanups, sim_reader>>

\* a statement of the try block raises
SimRaises ==
    /\ sim_pc \in {"try", "notify_complete", "notify_anomaly", "notify_policy"}
    /\ sim_pc' = "except"
    /\ UNCHANGED <<SIM_STREAMS, sim_created, sim_items, sim_stage, sim_queue_obj,
                   sim_lists, sim_trace, sim_cleanups, sim_reader>>

\* _append_notification("simulation_complete", ...)
SimNotifyComplete ==
    /\ sim_pc = "notify_complete"
    /\ sim_append_notification("simulation_complete")
    /\ sim_pc' = "notify_anomaly"
    /\ UNCHANGED <<SIM_STREAMS, sim_created, sim_items, sim_stage, sim_queue_obj,
                   sim_lists, sim_cleanups, sim_reader>>

\* if anomalies: _append_notification("simulation_anomaly_alert", ...)
SimNotifyAnomaly ==
    /\ sim_pc = "notify_anomaly"
    /\ IF sim_lists.anomalies THEN sim_append_notification("simulation_anomaly_alert")
       ELSE UNCHANGED sim_trace
    /\ sim_pc' = "notify_policy"
    /\ UNCHANGED <<SIM_STREAMS, sim_created, sim_items, sim_stage, sim_queue_obj,
                   sim_lists, sim_cleanups, sim_reader>>

\* if policy_violations: _append_notification("simulation_policy_alert", ...);
\* return summary
SimNotifyPolicy ==
    /\ sim_pc = "notify_policy"
    /\ IF sim_lists.policy_violations
       THEN sim_append_notification("simulation_policy_alert")
       ELSE UNCHANGED sim_trace
    /\ sim_pc' = "finally_returned"
    /\ UNCHANGED <<SIM_STREAMS, sim_created, sim_items, sim_stage, sim_queue_obj,
                   sim_lists, sim_cleanups, sim_reader>>

\* except Exception: emit_sse_event(run_id, "error", ...)
SimExceptEmit ==
    /\ sim_pc = "except"
    /\ emit_sse_event("error")
    /\ sim_pc' = "except_notify"
    /\ UNCHANGED <<sim_stage, sim_queue_obj, sim_lists, sim_cleanups, sim_reader>>

\* _append_notification("simulation_error", ...); raise
SimExceptNotify ==
    /\ sim_pc = "except_notify"
    /\ \/ sim_append_notification("simulation_error")
       \/ UNCHANGED sim_trace
    /\ sim_pc' = "finally_raised"
    /\ UNCHANGED <<SIM_STREAMS, sim_created, sim_items, sim_stage, sim_queue_obj,
                   sim_lists, sim_cleanups, sim_reader>>

\* finally: queue_obj.put(None)
SimFinally ==
    /\ sim_pc \in {"finally_returned", "finally_raised"}
    /\ sim_items' = [sim_items EXCEPT ![sim_queue_obj] = Append(@, Sentinel)]
    /\ sim_trace' = Append(sim_trace, PutEntry(Sentinel, sim_queue_obj))
    /\ sim_pc' = IF sim_pc = "finally_returned" THEN "returned" ELSE "raised"
    /\ UNCHANGED <<SIM_STREAMS, sim_created, sim_stage, sim_queue_obj, sim_lists,
                   sim_cleanups, sim_reader>>

\* POST /api/simulations/<run_id>/cleanup
cleanup_simulation ==
    /\ sim_cleanups < MaxCleanups
    /\ clear_stream_queue
    /\ sim_cleanups' = sim_cleanups + 1
    /\ UNCHANGED <<sim_created, sim_items, sim_pc, sim_stage, sim_queue_obj, sim_lists,
                   sim_trace, sim_reader>>

\* GET /api/simulations/<run_id>/stream: queue_obj = get_stream_queue(run_id)
stream_simulation ==
    /\ sim_reader.state = "idle"
    /\ sim_reader' = [obj |-> get_stream_queue, read |-> 0, state |-> "streaming"]
    /\ SIM_STREAMS' = get_stream_queue
    /\ sim_created' = created_after_get
    /\ UNCHANGED <<sim_items, sim_pc, sim_stage, sim_queue_obj, sim_lists, sim_trace,
                   sim_cleanups>>

\* item = queue_obj.get(); if item is None: break
sim_event_stream ==
    /\ sim_reader.state = "streaming"
    /\ sim_reader.read < Len(sim_items[sim_reader.obj])
    /\ sim_reader' =
         [sim_reader EXCEPT !.read = @ + 1,
                            !.state = IF sim_items[sim_reader.obj][sim_reader.read + 1] = Sentinel
                                      THEN "ended" ELSE "streaming"]
    /\ UNCHANGED <<SIM_STREAMS, sim_created, sim_items, sim_pc, sim_stage, sim_queue_obj,
                   sim_lists, sim_trace, sim_cleanups>>

SimInit == SimAtRest

InitSimulation == SimInit /\ SimOthersAtRest
NextSimulation ==
    /\ \/ start_simulation
       \/ SimGetQueue
       \/ SimEmitStatus
       \/ SimStage
       \/ SimRaises
       \/ SimNotifyComplete
       \/ SimNotifyAnomaly
       \/ SimNotifyPolicy
       \/ SimExceptEmit
       \/ SimExceptNotify
       \/ SimFinally
       \/ cleanup_simulation
       \/ stream_simulation
       \/ sim_event_stream
    /\ UNCHANGED SimOthers
SpecSimulation == InitSimulation /\ [][NextSimulation]_vars

(***************************************************************************)
(* Vocabulary of the simulation stream claim                               *)
(***************************************************************************)
SimFinished == sim_pc \in {"returned", "raised"}
\* the events the worker emitted, in order
EventsEmitted == SubSeq(SIM_EVENTS, 1, sim_stage)
\* what the run's stream queue has to hold when the worker has finished
ExpectedItems ==
    IF sim_pc = "returned" THEN SIM_EVENTS \o <<Sentinel>>
    ELSE EventsEmitted \o <<"error", Sentinel>>
\* positions in the trace
TracePos(kind, name) ==
    {k \in 1..Len(sim_trace) : sim_trace[k].kind = kind /\ sim_trace[k].name = name}
Appended(type) == TracePos("notification", type) # {}
AfterCompleted(type) ==
    \A k \in TracePos("notification", type) :
        \E j \in TracePos("put", "completed") : j < k

\* C19: when the worker has finished, the run's stream queue holds the
\* events in their fixed order, all eight after a success and a prefix
\* followed by one error event after a failure, and then the None sentinel,
\* put once and last; a successful run has appended simulation_complete,
\* simulation_anomaly_alert when there are anomalies and
\* simulation_policy_alert when there are policy violations, each after the
\* completed event.
C19_FixedOrderThenSentinel ==
    SimFinished =>
        /\ sim_items[sim_queue_obj] = ExpectedItems
        /\ \A obj \in QueueObjs \ {sim_queue_obj} : sim_items[obj] = <<>>
        /\ sim_pc = "returned" =>
              /\ Appended("simulation_complete")
              /\ Appended("simulation_anomaly_alert") <=> sim_lists.anomalies
              /\ Appended("simulation_policy_alert") <=> sim_lists.policy_violations
              /\ AfterCompleted("simulation_complete")
              /\ AfterCompleted("simulation_anomaly_alert")
              /\ AfterCompleted("simulation_policy_alert")

(***************************************************************************)
(* SummaryAgent.stream_summary (src/agents/summary_agent.py) with the      *)
(* adapter's call_llm (src/mcp_adapters/llm_adapter.py).  Texts are        *)
(* sequences of characters.                                                *)
(***************************************************************************)
\* the characters of the texts, in code point order
Ascii ==
    <<" ", "\"", "%", "-", ".", "0", "1", "2", "3", "4", "5", "6", "7", "8", "9",
      ":", "A", "B", "C", "D", "E", "F", "G", "H", "I", "J", "K", "L", "M",
      "N", "O", "P", "Q", "R", "S", "T", "U", "V", "W", "X", "Y", "Z", "[",
      "\\", "]", "_", "a", "b", "c", "d", "e", "f", "g", "h", "i", "j", "k",
      "l", "m", "n", "o", "p", "q", "r", "s", "t", "u", "v", "w", "x", "y",
      "z", "{", "|", "}">>
ord(c) == CHOOSE k \in 1..Len(Ascii) : Ascii[k] = c

\* str < str
RECURSIVE text_less(_, _)
text_less(a, b) ==
    IF b = <<>> THEN FALSE
    ELSE IF a = <<>> THEN TRUE
    ELSE IF Head(a) # Head(b) THEN ord(Head(a)) < ord(Head(b))
    ELSE text_less(Tail(a), Tail(b))

\* sorted(set(texts))
RECURSIVE sorted(_)
sorted(texts) ==
    IF texts = {} THEN <<>>
    ELSE LET least == CHOOSE t \in texts : \A u \in texts \ {t} : text_less(t, u)
         IN  <<least>> \o sorted(texts \ {least})

\* separator.join(texts)
RECURSIVE join(_, _)
join(separator, texts) ==
    IF texts = <<>> THEN <<>>
    ELSE IF Len(texts) = 1 THEN Head(texts)
    ELSE Head(texts) \o separator \o join(separator, Tail(texts))

\* str(n) of a natural number
RECURSIVE str_int(_)
str_int(n) ==
    IF n < 10 THEN <<Ascii[ord("0") + n]>>
    ELSE str_int(n \div 10) \o <<Ascii[ord("0") + (n % 10)]>>

\* text or default
text_or(text, default) == IF text = <<>> THEN default ELSE text

\* the end of the match of [A-Z]{3,}-\d+ (IGNORECASE) that starts at i, 0 when
\* there is none: the letter run from i is taken whole, for the hyphen has to
\* follow a letter
letters_end(text, i) ==
    LET stops == {k \in i..Len(text) : ~IsLetter(text[k])}
    IN  IF stops = {} THEN Len(text)
        ELSE (CHOOSE k \in stops : \A j \in stops : k <= j) - 1
code_end(text, i) ==
    LET e == letters_end(text, i)
    IN  IF /\ e - i + 1 >= 3
           /\ e + 2 <= Len(text)
           /\ text[e + 1] = "-"
           /\ IsDigit(text[e + 2])
        THEN digits_end(text, e + 2)
        ELSE 0

\* the first position from i on where [A-Z]{3,}-\d+ matches, 0 when there is none
next_code(text, i) ==
    LET starts == {j \in i..Len(text) : code_end(text, j) # 0}
    IN  IF starts = {} THEN 0 ELSE CHOOSE j \in starts : \A k \in starts : j <= k

RECURSIVE find_codes(_, _)
\* the match that starts at position s and those after it
find_codes_from(text, s) ==
    IF s = 0 THEN {}
    ELSE {SubSeq(text, s, code_end(text, s))} \cup find_codes(text, code_end(text, s) + 1)

\* set(re.findall(r"[A-Z]{3,}-\d+", prompt, flags=re.IGNORECASE)), scanning
\* from position i
find_codes(text, i) == find_codes_from(text, next_code(text, i))

\* _summarize_prompt(prompt)
summarize_prompt(prompt) ==
    <<"F", "o", "c", "u", "s", " ", "o", "n", " ", "v", "e", "n", "d", "o", "r",
      "s", ":", " ">>
    \o text_or(join(<<",", " ">>, extract_tokens(VENDOR_PATTERN, prompt)),
               <<"n", "o", " ", "v", "e", "n", "d", "o", "r", "s">>)
    \o <<".", " ", "I", "n", "v", "o", "i", "c", "e", "s", " ", "i", "n", "v", "o",
         "l", "v", "e", "d", ":", " ">>
    \o text_or(join(<<",", " ">>, extract_tokens(INVOICE_PATTERN, prompt)),
               <<"n", "o", " ", "i", "n", "v", "o", "i", "c", "e", "s">>)
    \o <<".", " ", "A", "d", "d", "i", "t", "i", "o", "n", "a", "l", " ", "c", "o",
         "d", "e", "s", ":", " ">>
    \o text_or(join(<<",", " ">>, sorted(find_codes(prompt, 1))),
               <<"n", "o", " ", "t", "a", "g", "g", "e", "d", " ", "c", "o", "d", "e", "s">>)
    \o <<".">>

\* len(summary) // 2 or len(summary)
mid_of(summary) == IF Len(summary) \div 2 # 0 THEN Len(summary) \div 2 ELSE Len(summary)

\* _mock_stream_response(prompt): the chunks the generator yields
END_OF_MOCK_STREAM ==
    <<"-", "-", " ", "E", "n", "d", " ", "o", "f", " ", "m", "o", "c", "k", " ",
      "s", "t", "r", "e", "a", "m", " ", "-", "-">>
halves(summary, mid) ==
    <<text_or(strip(SubSeq(summary, 1, mid)),
              <<"S", "u", "m", "m", "a", "r", "y", " ", "p", "a", "r", "t", " ", "1">>),
      text_or(strip(SubSeq(summary, mid + 1, Len(summary))),
              <<"S", "u", "m", "m", "a", "r", "y", " ", "p", "a", "r", "t", " ", "2">>),
      END_OF_MOCK_STREAM>>
chunks_of(summary) == halves(summary, mid_of(summary))
mock_stream_response(prompt) == chunks_of(summarize_prompt(prompt))

\* _mock_complete_response(prompt)
mock_complete_response(prompt) ==
    <<"M", "o", "c", "k", " ", "s", "u", "m", "m", "a", "r", "y", ":", "\n">>
    \o summarize_prompt(prompt)
    \o <<"\n", "-", "-", "\n", "T", "o", "k", "e", "n", "s", " ", "u", "s", "e",
         "d", ":", " ">>
    \o str_int(Min2(MAX_TOKENS, Max(Len(prompt) \div 6, MIN_TOKENS)))

\* call_llm(prompt, stream): raises NotImplementedError unless USE_MOCK
call_llm(prompt, streamed, use_mock) ==
    IF use_mock
    THEN [raised |-> FALSE,
          value |-> IF streamed THEN mock_stream_response(prompt)
                    ELSE mock_complete_response(prompt)]
    ELSE [raised |-> TRUE, error |-> "NotImplementedError"]

\* json.dumps(context, indent=2) of a context whose documents carry vendor_id
\* and invoice_id and whose journal_entries and anomalies are empty
dumps_document(doc) ==
    <<" ", " ", " ", " ", "{", "\n", " ", " ", " ", " ", " ", " ", "\"", "v",
      "e", "n", "d", "o", "r", "_", "i", "d", "\"", ":", " ", "\"">>
    \o doc.vendor_id
    \o <<"\"", ",", "\n", " ", " ", " ", " ", " ", " ", "\"", "i", "n", "v", "o",
         "i", "c", "e", "_", "i", "d", "\"", ":", " ", "\"">>
    \o doc.invoice_id
    \o <<"\"", "\n", " ", " ", " ", " ", "}">>
dumps_documents(docs) ==
    IF docs = <<>> THEN <<"[", "]">>
    ELSE <<"[", "\n">>
         \o join(<<",", "\n">>, [k \in 1..Len(docs) |-> dumps_document(docs[k])])
         \o <<"\n", " ", " ", "]">>
json_dumps(context) ==
    <<"{", "\n", " ", " ", "\"", "d", "o", "c", "u", "m", "e", "n", "t", "s",
      "\"", ":", " ">>
    \o dumps_documents(context.documents)
    \o <<",", "\n", " ", " ", "\"", "j", "o", "u", "r", "n", "a", "l", "_", "e",
         "n", "t", "r", "i", "e", "s", "\"", ":", " ", "[", "]", ",", "\n",
         " ", " ", "\"", "a", "n", "o", "m", "a", "l", "i", "e", "s", "\"",
         ":", " ", "[", "]", "\n", "}">>

\* one row of the Evidence Map of _mock_summary: filename, doc_type,
\* vendor_name, po_id, date and path are absent, amount is 0.0, currency USD
\* and confidence 0.9 by default
evidence_row(doc) ==
    <<"|", " ", " ", "|", " ", " ", "|", " ", " ", "|", " ">>
    \o doc.invoice_id
    \o <<" ", "|", " ", " ", "|", " ", " ", "|", " ", "0", ".", "0", "0", " ", "U",
         "S", "D", " ", "|", " ", " ", "|", " ", "0", ".", "9", "0", " ", "|">>

\* _render_markdown(context)
markdown(context) ==
    join(<<"\n">>,
         <<<<"#", " ", "A", "u", "d", "i", "t", " ", "S", "u", "m", "m", "a", "r", "y">>,
           <<>>,
           <<"#", "#", " ", "E", "x", "e", "c", "u", "t", "i", "v", "e", " ", "O", "v",
             "e", "r", "v", "i", "e", "w">>,
           <<"R", "e", "v", "i", "e", "w", "e", "d", " ", "0", " ", "j", "o", "u", "r",
             "n", "a", "l", " ", "e", "n", "t", "r", "i", "e", "s", " ", "l",
             "i", "n", "k", "e", "d", " ", "t", "o", " ">>
           \o str_int(Len(context.documents))
           \o <<" ", "d", "o", "c", "u", "m", "e", "n", "t", "s", " ", "t", "o", "t", "a",
                "l", "l", "i", "n", "g", " ", "0", ".", "0", "0", ".", " ",
                "E", "v", "i", "d", "e", "n", "c", "e", " ", "c", "o", "v",
                "e", "r", "a", "g", "e", " ", "r", "a", "t", "i", "o", " ",
                "i", "s", " ", "0", ".", "0", "0", "%", " ", "w", "i", "t",
                "h", " ", "a", "v", "e", "r", "a", "g", "e", " ", "e", "x",
                "t", "r", "a", "c", "t", "i", "o", "n", " ", "c", "o", "n",
                "f", "i", "d", "e", "n", "c", "e", " ", "o", "f", " ">>
           \o (IF context.documents = <<>> THEN <<"0", ".", "0", "0">>
               ELSE <<"0", ".", "9", "0">>)
           \o <<".">>,
           <<>>,
           <<"#", "#", " ", "E", "v", "i", "d", "e", "n", "c", "e", " ", "M", "a", "p">>,
           <<"|", " ", "D", "o", "c", "u", "m", "e", "n", "t", " ", "|", " ", "T", "y",
             "p", "e", " ", "|", " ", "V", "e", "n", "d", "o", "r", " ", "|",
             " ", "I", "n", "v", "o", "i", "c", "e", " ", "|", " ", "P", "O",
             " ", "|", " ", "D", "a", "t", "e", " ", "|", " ", "A", "m", "o",
             "u", "n", "t", " ", "|", " ", "P", "a", "t", "h", " ", "|", " ",
             "C", "o", "n", "f", "i", "d", "e", "n", "c", "e", " ", "|">>,
           <<"|", " ", "-", "-", "-", " ", "|", " ", "-", "-", "-", " ", "|", " ", "-",
             "-", "-", " ", "|", " ", "-", "-", "-", " ", "|", " ", "-", "-",
             "-", " ", "|", " ", "-", "-", "-", " ", "|", " ", "-", "-", "-",
             " ", "|", " ", "-", "-", "-", " ", "|", " ", "-", "-", "-", " ",
             "|">>>>
         \o [k \in 1..Len(context.documents) |-> evidence_row(context.documents[k])]
         \o <<<<>>,
              <<"#", "#", " ", "A", "n", "o", "m", "a", "l", "i", "e", "s">>,
              <<"-", " ", "N", "o", "n", "e", " ", "o", "b", "s", "e", "r", "v", "e", "d">>>>)

\* generate_summary(context, use_llm=False)
generate_summary(context) == markdown(context)

\* the documents of a summary context
SummaryDocPool ==
    {[vendor_id |-> <<"V", "E", "N", "D", "-", "1">>, invoice_id |-> <<"I", "N", "V", "-", "7">>],
     [vendor_id |-> <<"v", "e", "n", "d", "-", "2">>, invoice_id |-> <<"I", "N", "V", "-", "7">>],
     [vendor_id |-> <<>>, invoice_id |-> <<>>]}
SummaryContextPool == {[documents |-> docs] : docs \in SeqsUpTo(SummaryDocPool, MaxDocs)}

Returned(value) == [called |-> TRUE, raised |-> FALSE, value |-> value]
RaisedError(error) == [called |-> TRUE, raised |-> TRUE, error |-> error]

SsInit ==
    /\ ss_input \in {[context |-> context, use_llm |-> use_llm, adapter |-> adapter,
                      USE_MOCK |-> mock] :
                        context \in SummaryContextPool, use_llm \in BOOLEAN,
                        adapter \in BOOLEAN, mock \in BOOLEAN}
    /\ ss_pc = "entry"
    /\ ss_stream = <<>>
    /\ ss_chunks = <<>>
    /\ ss_sink = <<>>
    /\ ss_result = NotCalled

\* stream_callback(chunk)
stream_callback(chunk) == ss_sink' = Append(ss_sink, chunk)

\* if not use_llm: rendered = self.generate_summary(context, use_llm=False);
\* stream_callback(rendered); return rendered
StreamDeterministic ==
    /\ ss_pc = "entry"
    /\ ~ss_input.use_llm
    /\ stream_callback(generate_summary(ss_input.context))
    /\ ss_result' = Returned(generate_summary(ss_input.context))
    /\ ss_pc' = "done"
    /\ UNCHANGED <<ss_input, ss_stream, ss_chunks>>

\* the adapter is present and USE_MOCK is set:
\* llm_adapter.call_llm(payload, stream=True) returns the generator
StreamMockStart ==
    /\ ss_pc = "entry"
    /\ ss_input.use_llm /\ ss_input.adapter /\ ss_input.USE_MOCK
    /\ ss_stream' = call_llm(json_dumps(ss_input.context), TRUE, ss_input.USE_MOCK).value
    /\ ss_pc' = "loop"
    /\ UNCHANGED <<ss_input, ss_chunks, ss_sink, ss_result>>

\* for chunk in ...: chunks.append(chunk); stream_callback(chunk)
StreamMockChunk ==
    /\ ss_pc = "loop"
    /\ ss_stream # <<>>
    /\ ss_chunks' = Append(ss_chunks, Head(ss_stream))
    /\ stream_callback(Head(ss_stream))
    /\ ss_stream' = Tail(ss_stream)
    /\ UNCHANGED <<ss_input, ss_pc, ss_result>>

\* return "".join(chunks)
StreamMockReturn ==
    /\ ss_pc = "loop"
    /\ ss_stream = <<>>
    /\ ss_result' = Returned(join(<<>>, ss_chunks))
    /\ ss_pc' = "done"
    /\ UNCHANGED <<ss_input, ss_stream, ss_chunks, ss_sink>>

\* the adapter is present and USE_MOCK is not set:
\* response = llm_adapter.call_llm(payload); stream_callback(response); return response
StreamSingleResponse ==
    /\ ss_pc = "entry"
    /\ ss_input.use_llm /\ ss_input.adapter /\ ~ss_input.USE_MOCK
    /\ LET response == call_llm(json_dumps(ss_input.context), FALSE, ss_input.USE_MOCK)
       IN  IF response.raised
           THEN /\ ss_result' = RaisedError(response.error)
                /\ UNCHANGED ss_sink
           ELSE /\ stream_callback(response.value)
                /\ ss_result' = Returned(response.value)
    /\ ss_pc' = "done"
    /\ UNCHANGED <<ss_input, ss_stream, ss_chunks>>

\* llm_adapter is None: rendered = self.generate_summary(context, use_llm=False);
\* stream_callback(rendered); return rendered
StreamAdapterUnavailable ==
    /\ ss_pc = "entry"
    /\ ss_input.use_llm /\ ~ss_input.adapter
    /\ stream_callback(generate_summary(ss_input.context))
    /\ ss_result' = Returned(generate_summary(ss_input.context))
    /\ ss_pc' = "done"
    /\ UNCHANGED <<ss_input, ss_stream, ss_chunks>>

InitStreamSummary == SsInit /\ SsOthersAtRest
NextStreamSummary ==
    /\ \/ StreamDeterministic
       \/ StreamMockStart
       \/ StreamMockChunk
       \/ StreamMockReturn
       \/ StreamSingleResponse
       \/ StreamAdapterUnavailable
    /\ UNCHANGED SsOthers
SpecStreamSummary == InitStreamSummary /\ [][NextStreamSummary]_vars

(***************************************************************************)
(* Vocabulary of the stream_summary claim                                  *)
(***************************************************************************)
\* the chunks passed to the sink, one after the other
Concatenated == Flatten(ss_sink)

\* C20: in every mode (use_llm false, mock streaming, single response without
\* the mock, adapter unavailable) a finished stream_summary has invoked the
\* sink at least once and returns the in-order concatenation of the chunks
\* it passed to the sink.
C20_SinkThenConcatenation ==
    ss_result.called =>
        /\ ~ss_result.raised
        /\ Len(ss_sink) >= 1
        /\ ss_result.value = Concatenated

(***************************************************************************)
(* Vocabulary of the queue registration claim (run workers above)          *)
(***************************************************************************)
\* the worker thread of run r was started
Started(r) == w_pc[r] # "idle"
\* the worker is at or inside its try block
InTryBlock(r) == w_pc[r] \in {"status", "execute", "after_record", "complete"}
\* the worker has gone through its first _enqueue
StatusEmitted(r) == Started(r) /\ w_pc[r] # "status"

\* C21: the queue of every run whose worker thread was started is in
\* RUN_QUEUES from the start of the thread on: while the worker is in its
\* try block a lookup of the run id finds the queue (a stream request is
\* not answered 404), and the status event, the first the worker emits,
\* was put on the queue and not dropped.
C21_QueueRegisteredBeforeStart ==
    \A r \in Runs :
        /\ InTryBlock(r) => RUN_QUEUES[r]
        /\ StatusEmitted(r) => Count(put_log[r], "status") = 1

(***************************************************************************)
(* The locks of src/app.py: RUN_LOCK, NOTIFICATION_LOCK, SCHEDULE_LOCK.     *)
(* Each thread runs a code: the sequence of lock operations, table         *)
(* accesses and calls of the function it executes, in source order.  A     *)
(* "with LOCK:" block is an acquire and a release around its body.  A      *)
(* thread takes one step at a time, each step starting where the thread    *)
(* may have to wait for a lock, so the only thing that can hold a thread   *)
(* back is a lock somebody else holds (threading.Lock is not reentrant: a  *)
(* thread that acquires a lock it holds waits for itself).                 *)
(***************************************************************************)
Locks == {"RUN_LOCK", "NOTIFICATION_LOCK", "SCHEDULE_LOCK"}
RunTables == {"RUN_QUEUES", "RUN_RESULTS"}
Free == -1

\* thread 0 is SCHEDULER_THREAD, then the request threads, then the workers
SCHEDULER_THREAD == 0
RequestThreads == 1..MaxRequests
WorkerThreads == (MaxRequests + 1)..(MaxRequests + MaxWorkers)
Threads == {SCHEDULER_THREAD} \cup RequestThreads \cup WorkerThreads

acquire(lock) == [op |-> "acquire", on |-> lock]
release(lock) == [op |-> "release", on |-> lock]
access(table) == [op |-> "access", on |-> table]
call(name) == [op |-> "call", on |-> name]
thread_start == [op |-> "start", on |-> "_worker"]

enqueue_program_mut_put_inside ==
    <<acquire("RUN_LOCK"), access("RUN_QUEUES"), call("q.put"),
      release("RUN_LOCK")>>

\* _enqueue: the queue is looked up under RUN_LOCK, the put is outside it
enqueue_program ==
    <<acquire("RUN_LOCK"), access("RUN_QUEUES"), release("RUN_LOCK"),
      call("q.put")>>

\* _append_notification: load, append and write under NOTIFICATION_LOCK
append_notification_program ==
    <<acquire("NOTIFICATION_LOCK"), call("_load_notifications"),
      call("_write_notifications"), release("NOTIFICATION_LOCK")>>

\* the finally block of _worker: lookup, sentinel, pop
worker_finally ==
    <<call("_persist_conversation"),
      acquire("RUN_LOCK"), access("RUN_QUEUES"), release("RUN_LOCK"),
      call("q.put"),
      acquire("RUN_LOCK"), access("RUN_QUEUES"), release("RUN_LOCK")>>

\* _worker when nothing raises, for a run with a summary chunk and anomalies
worker_program ==
    <<call("_persist_conversation")>>
    \o enqueue_program
    \o <<call("orchestrator.execute"), call("_persist_conversation")>>
    \o enqueue_program
    \o <<call("_persist_conversation"), access("RUN_RESULTS")>>
    \o append_notification_program
    \o append_notification_program
    \o enqueue_program
    \o worker_finally

\* _worker when orchestrator.execute raises
worker_failed_program ==
    <<call("_persist_conversation")>>
    \o enqueue_program
    \o <<call("orchestrator.execute")>>
    \o enqueue_program
    \o worker_finally

\* POST /api/nl-query: the queue is registered, then the thread is started
nl_query_program ==
    <<call("parse_intent"), call("plan_tasks"),
      acquire("RUN_LOCK"), access("RUN_QUEUES"), release("RUN_LOCK"),
      thread_start>>

\* GET /api/stream/<run_id>: lookup under RUN_LOCK, q.get() outside it
stream_program ==
    <<acquire("RUN_LOCK"), access("RUN_QUEUES"), release("RUN_LOCK"),
      call("q.get")>>

\* GET /api/download/<run_id>
download_program == <<access("RUN_RESULTS"), call("send_file")>>

\* GET /api/notifications
notifications_list_program == <<call("_load_notifications")>>

notifications_ack_program_mut_nested ==
    <<acquire("NOTIFICATION_LOCK"), call("_load_notifications"),
      acquire("SCHEDULE_LOCK"), call("_load_schedules"),
      release("SCHEDULE_LOCK"),
      call("_write_notifications"), release("NOTIFICATION_LOCK")>>

\* POST /api/notifications/ack
notifications_ack_program ==
    <<acquire("NOTIFICATION_LOCK"), call("_load_notifications"),
      call("_write_notifications"), release("NOTIFICATION_LOCK")>>

\* POST /api/scheduler
scheduler_create_program ==
    <<call("_parse_iso_datetime"),
      acquire("SCHEDULE_LOCK"), call("_load_schedules"),
      call("_write_schedules"), release("SCHEDULE_LOCK")>>

\* GET /api/scheduler
scheduler_list_program ==
    <<acquire("SCHEDULE_LOCK"), call("_load_schedules"),
      release("SCHEDULE_LOCK")>>

\* DELETE /api/scheduler/<schedule_id>, the schedule being stored
scheduler_delete_program ==
    <<acquire("SCHEDULE_LOCK"), call("_load_schedules"),
      call("_write_schedules"), release("SCHEDULE_LOCK")>>

\* _trigger_scheduled_run, called by _poll_schedules for a due schedule
trigger_scheduled_run_program ==
    <<call("parse_intent"), call("plan_tasks"), thread_start>>
    \o append_notification_program

\* _poll_schedules when one schedule is due
poll_schedules_program ==
    <<acquire("SCHEDULE_LOCK"), call("_load_schedules")>>
    \o trigger_scheduled_run_program
    \o <<call("_write_schedules"), release("SCHEDULE_LOCK")>>

\* _poll_schedules when no schedule is due: nothing is written
poll_idle_program ==
    <<acquire("SCHEDULE_LOCK"), call("_load_schedules"),
      release("SCHEDULE_LOCK")>>

Handlers ==
    {"nl_query", "stream", "download", "notifications_list",
     "notifications_ack", "scheduler_create", "scheduler_list",
     "scheduler_delete"}
WorkerKinds == {"_worker", "_worker_failed"}
PollKinds == {"_poll_schedules", "_poll_idle"}

Code(kind) ==
    CASE kind = "nl_query" -> nl_query_program
      [] kind = "stream" -> stream_program
      [] kind = "download" -> download_program
      [] kind = "notifications_list" -> notifications_list_program
      [] kind = "notifications_ack" -> notifications_ack_program
      [] kind = "scheduler_create" -> scheduler_create_program
      [] kind = "scheduler_list" -> scheduler_list_program
      [] kind = "scheduler_delete" -> scheduler_delete_program
      [] kind = "_worker" -> worker_program
      [] kind = "_worker_failed" -> worker_failed_program
      [] kind = "_poll_schedules" -> poll_schedules_program
      [] kind = "_poll_idle" -> poll_idle_program
      [] OTHER -> <<>>

IsLockOp(ins) == ins.op \in {"acquire", "release"}

\* the position of the last lock operation before i, 0 if none
RECURSIVE previous_lock_op(_, _)
previous_lock_op(code, i) ==
    IF i <= 1 THEN 0
    ELSE IF IsLockOp(code[i - 1]) THEN i - 1
    ELSE previous_lock_op(code, i - 1)

\* a step starts at every acquire, and at the release that ends a block
\* inside which another lock was taken.  A "with" block that takes no lock
\* inside runs as one step with the code after it: nothing in it waits.
StartsStep(code, i) ==
    \/ code[i].op = "acquire"
    \/ /\ code[i].op = "release"
       /\ previous_lock_op(code, i) # 0
       /\ code[previous_lock_op(code, i)].op = "release"

\* the position of the first step start at or after i, Len + 1 if none
RECURSIVE next_step_start(_, _)
next_step_start(code, i) ==
    IF i > Len(code) THEN i
    ELSE IF StartsStep(code, i) THEN i
    ELSE next_step_start(code, i + 1)

\* the last instruction of the step that starts at pc
step_end(code, pc) == next_step_start(code, pc + 1) - 1

\* the locks a thread holds after an instruction
held_after(held, ins) ==
    IF ins.op = "acquire" THEN held \cup {ins.on}
    ELSE IF ins.op = "release" THEN held \ {ins.on}
    ELSE held

\* the locks a thread holds just before instruction i, holding held at from
RECURSIVE held_before(_, _, _, _)
held_before(held, code, from, i) ==
    IF from >= i THEN held
    ELSE held_before(held_after(held, code[from]), code, from + 1, i)

Running(t) == lk_prog[t] # "none"
ThreadCode(t) == Code(lk_prog[t])
NextIns(t) == ThreadCode(t)[lk_pc[t]]
Held(t) == {l \in Locks : lk_holder[l] = t}
\* the positions of the instructions thread t runs in its next step
StepRange(t) == lk_pc[t]..step_end(ThreadCode(t), lk_pc[t])
StepIns(t) == {ThreadCode(t)[i] : i \in StepRange(t)}
\* the locks t holds when it runs instruction i of its step
HeldAt(t, i) == held_before(Held(t), ThreadCode(t), lk_pc[t], i)

\* Lock.acquire() returns only when the lock is free
CanRun(t) ==
    /\ Running(t)
    /\ NextIns(t).op = "acquire" => lk_holder[NextIns(t).on] = Free

\* the locks once t has run its step
holder_after(t, held) ==
    [l \in Locks |-> IF l \in held THEN t
                     ELSE IF lk_holder[l] = t THEN Free
                     ELSE lk_holder[l]]

FreeWorkers == {w \in WorkerThreads : ~Running(w)}

\* one step of thread t; a thread that returns gives its slot back
run_step(t) ==
    /\ CanRun(t)
    /\ lk_holder' = holder_after(t, HeldAt(t, step_end(ThreadCode(t), lk_pc[t]) + 1))
    /\ LET last == step_end(ThreadCode(t), lk_pc[t])
           done == last = Len(ThreadCode(t))
           after_pc == IF done THEN 0 ELSE last + 1
           after_prog == IF done THEN "none" ELSE lk_prog[t]
       IN  IF thread_start \in StepIns(t)
           THEN \E w \in FreeWorkers, kind \in WorkerKinds :
                    /\ \A u \in FreeWorkers : w <= u
                    /\ lk_prog' = [lk_prog EXCEPT ![t] = after_prog,
                                                  ![w] = kind]
                    /\ lk_pc' = [lk_pc EXCEPT ![t] = after_pc, ![w] = 1]
           ELSE /\ lk_prog' = [lk_prog EXCEPT ![t] = after_prog]
                /\ lk_pc' = [lk_pc EXCEPT ![t] = after_pc]

LkInit ==
    /\ lk_holder = [l \in Locks |-> Free]
    /\ lk_prog = [t \in Threads |-> "none"]
    /\ lk_pc = [t \in Threads |-> 0]

\* Flask hands a request to a thread of its own (the first idle one)
request(t, kind) ==
    /\ ~Running(t)
    /\ \A u \in RequestThreads : u < t => Running(u)
    /\ lk_prog' = [lk_prog EXCEPT ![t] = kind]
    /\ lk_pc' = [lk_pc EXCEPT ![t] = 1]
    /\ UNCHANGED lk_holder

\* _scheduler_loop: the next iteration begins when the previous one returned
scheduler_loop(kind) ==
    /\ ~Running(SCHEDULER_THREAD)
    /\ lk_prog' = [lk_prog EXCEPT ![SCHEDULER_THREAD] = kind]
    /\ lk_pc' = [lk_pc EXCEPT ![SCHEDULER_THREAD] = 1]
    /\ UNCHANGED lk_holder

handler_step(t) == run_step(t)
poll_step == run_step(SCHEDULER_THREAD)
worker_step(t) == run_step(t)

InitLocks == LkInit /\ LkOthersAtRest
NextLocks ==
    /\ \/ \E t \in RequestThreads, kind \in Handlers : request(t, kind)
       \/ \E kind \in PollKinds : scheduler_loop(kind)
       \/ \E t \in RequestThreads : handler_step(t)
       \/ poll_step
       \/ \E t \in WorkerThreads : worker_step(t)
    /\ UNCHANGED LkOthers
SpecLocks == InitLocks /\ [][NextLocks]_vars

\* ---- vocabulary of the lock claims ----
\* thread t takes a step in this transition
Moved(t) == Running(t) /\ lk_pc'[t] # lk_pc[t]
\* t accesses the table at instruction i of its next step
AccessAt(t, i, table) == ThreadCode(t)[i] = access(table)
Accesses(t, table) == access(table) \in StepIns(t)

\* C22 as stated: every access to RUN_QUEUES and to RUN_RESULTS is made
\* holding RUN_LOCK, and RUN_LOCK is held for nothing but such an access.
C22_EveryAccessUnderRunLock ==
    [][\A t \in Threads : Moved(t) =>
          \A i \in StepRange(t) :
              /\ \A table \in RunTables :
                     AccessAt(t, i, table) => "RUN_LOCK" \in HeldAt(t, i)
              /\ "RUN_LOCK" \in HeldAt(t, i) =>
                     \/ ThreadCode(t)[i] = release("RUN_LOCK")
                     \/ \E table \in RunTables : AccessAt(t, i, table)]_vars

\* C22 (amended): every access to RUN_QUEUES is made holding RUN_LOCK, and
\* RUN_LOCK is held for nothing but that access (never across q.put, q.get,
\* orchestrator.execute or a file operation); RUN_RESULTS is written by the
\* worker and read by the handlers while the thread holds no lock at all.
C22_QueuesUnderRunLockResultsUnlocked ==
    [][\A t \in Threads : Moved(t) =>
          \A i \in StepRange(t) :
              /\ AccessAt(t, i, "RUN_QUEUES") => "RUN_LOCK" \in HeldAt(t, i)
              /\ "RUN_LOCK" \in HeldAt(t, i) =>
                     \/ ThreadCode(t)[i] = release("RUN_LOCK")
                     \/ AccessAt(t, i, "RUN_QUEUES")
              /\ AccessAt(t, i, "RUN_RESULTS") => HeldAt(t, i) = {}]_vars

\* a worker is about to store its result while a handler is about to read
\* the table, neither holding a lock
C22_Witness ==
    \E w \in WorkerThreads, h \in RequestThreads :
        /\ Running(w) /\ Accesses(w, "RUN_RESULTS") /\ Held(w) = {}
        /\ Running(h) /\ Accesses(h, "RUN_RESULTS") /\ Held(h) = {}

\* thread t is at an acquire of a lock that is not free
Waiting(t) ==
    /\ Running(t)
    /\ NextIns(t).op = "acquire"
    /\ lk_holder[NextIns(t).on] # Free
WaitsOn(t) == lk_holder[NextIns(t).on]
\* some threads wait for locks that only threads among them can release
Deadlocked ==
    \E D \in SUBSET Threads :
        /\ D # {}
        /\ \A t \in D : Waiting(t) /\ WaitsOn(t) \in D
\* the locks t holds at the acquire it is about to make fit the order
InOrder(t) ==
    (Running(t) /\ NextIns(t).op = "acquire") =>
        /\ "RUN_LOCK" \notin Held(t)
        /\ NextIns(t).on \notin Held(t)
        /\ NextIns(t).on = "SCHEDULE_LOCK" =>
               "NOTIFICATION_LOCK" \notin Held(t)

\* C28: the three locks are taken in one order (SCHEDULE_LOCK may be held
\* when NOTIFICATION_LOCK is taken, never the reverse; RUN_LOCK is never
\* held when a lock is taken; no thread takes a lock it holds), and no set
\* of threads ever waits for locks held within the set: no deadlock.
C28_ConsistentLockOrder ==
    /\ \A t \in Threads : InOrder(t)
    /\ ~Deadlocked

\* the poll holds SCHEDULE_LOCK and is about to take NOTIFICATION_LOCK for
\* the scheduler_triggered entry while a scheduler handler waits for it
C28_Witness ==
    /\ Held(SCHEDULER_THREAD) = {"SCHEDULE_LOCK"}
    /\ NextIns(SCHEDULER_THREAD) = acquire("NOTIFICATION_LOCK")
    /\ \E h \in RequestThreads :
           Waiting(h) /\ WaitsOn(h) = SCHEDULER_THREAD

(***************************************************************************)
(* Concurrent read-modify-write cycles on notifications.json.  The run     *)
(* worker (_record_run_notifications), the scheduler trigger and            *)
(* notifications_ack of src/app.py go through NOTIFICATION_LOCK; the        *)
(* simulation worker calls _append_notification of                          *)
(* api/features_simulation.py, which loads, appends and writes the same    *)
(* file without taking any lock.  Each caller makes one call.              *)
(***************************************************************************)
Callers == 1..MaxCallers
\* str(uuid.uuid4()): one id per call, never repeated
uuid_of(c) == "n" \o ToString(c)
AppLockedAppends == {"run_complete", "scheduler_triggered"}
SimAppends == {"simulation_complete"}
NoCall == [kind |-> "none", id |-> "", pc |-> "idle", loaded |-> <<>>]

NrInit ==
    /\ nr_file = <<>>
    /\ nr_lock = 0
    /\ nr_call = [c \in Callers |-> NoCall]
    /\ nr_appended = {}
    /\ nr_acked = {}

\* a worker, the scheduler or a request thread enters one of the functions
LogCallArrives(c, kind, id) ==
    /\ nr_call[c].kind = "none"
    /\ \A b \in Callers : b < c => nr_call[b].kind # "none"
    /\ nr_call' = [nr_call EXCEPT ![c] =
                       [kind |-> kind, id |-> id, pc |-> "load",
                        loaded |-> <<>>]]
    /\ UNCHANGED <<nr_file, nr_lock, nr_appended, nr_acked>>

IsLocked(kind) == kind \in AppLockedAppends \cup {"ack"}

\* with NOTIFICATION_LOCK: existing = _load_notifications()
LockedLoad(c) ==
    /\ nr_call[c].pc = "load"
    /\ IsLocked(nr_call[c].kind)
    /\ nr_lock = 0
    /\ nr_lock' = c
    /\ nr_call' = [nr_call EXCEPT ![c].pc = "write", ![c].loaded = nr_file]
    /\ UNCHANGED <<nr_file, nr_appended, nr_acked>>

\* app._append_notification: existing.append(...); _write_notifications
LockedAppendWrite(c) ==
    /\ nr_call[c].pc = "write"
    /\ nr_call[c].kind \in AppLockedAppends
    /\ nr_file' = Append(nr_call[c].loaded,
                         [id |-> nr_call[c].id, type |-> nr_call[c].kind,
                          read |-> FALSE])
    /\ nr_lock' = 0
    /\ nr_appended' = nr_appended \cup {nr_call[c].id}
    /\ nr_call' = [nr_call EXCEPT ![c].pc = "returned", ![c].loaded = <<>>]
    /\ UNCHANGED nr_acked

\* notifications_ack: mark the entries of the loaded list, write it back
AckWrite(c) ==
    /\ nr_call[c].pc = "write"
    /\ nr_call[c].kind = "ack"
    /\ nr_file' = mark_read(nr_call[c].loaded, {nr_call[c].id})
    /\ nr_lock' = 0
    /\ nr_acked' = nr_acked \cup
           {nr_call[c].loaded[k].id : k \in
               {j \in 1..Len(nr_call[c].loaded) :
                    nr_call[c].loaded[j].id = nr_call[c].id}}
    /\ nr_call' = [nr_call EXCEPT ![c].pc = "returned", ![c].loaded = <<>>]
    /\ UNCHANGED nr_appended

\* features_simulation._append_notification: existing = _load_notifications()
SimLoad(c) ==
    /\ nr_call[c].pc = "load"
    /\ nr_call[c].kind \in SimAppends
    /\ nr_call' = [nr_call EXCEPT ![c].pc = "write", ![c].loaded = nr_file]
    /\ UNCHANGED <<nr_file, nr_lock, nr_appended, nr_acked>>

\* features_simulation._append_notification: append, _write_notifications
SimAppendWrite(c) ==
    /\ nr_call[c].pc = "write"
    /\ nr_call[c].kind \in SimAppends
    /\ nr_file' = Append(nr_call[c].loaded,
                         [id |-> nr_call[c].id, type |-> nr_call[c].kind,
                          read |-> FALSE])
    /\ nr_appended' = nr_appended \cup {nr_call[c].id}
    /\ nr_call' = [nr_call EXCEPT ![c].pc = "returned", ![c].loaded = <<>>]
    /\ UNCHANGED <<nr_lock, nr_acked>>

InitLogRace == NrInit /\ NrOthersAtRest
NextLogRace ==
    /\ \/ \E c \in Callers, kind \in AppLockedAppends \cup SimAppends :
              LogCallArrives(c, kind, uuid_of(c))
       \/ \E c \in Callers, b \in Callers : LogCallArrives(c, "ack", uuid_of(b))
       \/ \E c \in Callers : LockedLoad(c)
       \/ \E c \in Callers : LockedAppendWrite(c)
       \/ \E c \in Callers : AckWrite(c)
       \/ \E c \in Callers : SimLoad(c)
       \/ \E c \in Callers : SimAppendWrite(c)
    /\ UNCHANGED NrOthers
SpecLogRace == InitLogRace /\ [][NextLogRace]_vars

FileIds == {nr_file[k].id : k \in 1..Len(nr_file)}
ReadIds == {nr_file[k].id : k \in {j \in 1..Len(nr_file) : nr_file[j].read}}
\* a simulation worker is inside its load-append-write
SimInFlight == \E c \in Callers : nr_call[c].kind \in SimAppends /\ nr_call[c].pc = "write"
SimCalled == \E c \in Callers : nr_call[c].kind \in SimAppends

\* C23: whatever the interleaving of appends (run workers, scheduler
\* trigger, simulation workers) and acknowledgements, every notification
\* whose append has returned is in the log and every notification an
\* acknowledgement has marked is still marked read.
C23_NoLostNotification ==
    /\ nr_appended \subseteq FileIds
    /\ nr_acked \subseteq ReadIds

(***************************************************************************)
(* The scheduler poll (_poll_schedules on SCHEDULER_THREAD) against the    *)
(* handlers scheduler_create and scheduler_delete.  A schedule is reduced  *)
(* to its id, whether its next_run_at has passed (due) and whether the     *)
(* poll has fired it.  Each step is the code between taking the lock and   *)
(* the write, or the write and the release.                                *)
(***************************************************************************)
NoRequest ==
    [kind |-> "none", id |-> "", due |-> FALSE, pc |-> "idle",
     loaded |-> <<>>]
\* str(uuid.uuid4()) of scheduler_create: one id per request
schedule_id_of(c) == "s" \o ToString(c)
holder_of(c) == "h" \o ToString(c)

SrInit ==
    /\ sr_file = <<>>
    /\ sr_lock = "free"
    /\ sr_poll = [pc |-> "wait", loaded |-> <<>>]
    /\ sr_call = [c \in Callers |-> NoRequest]
    /\ sr_created = {}
    /\ sr_deleted = {}

\* POST /api/scheduler or DELETE /api/scheduler/<id> reaches its with block
ScheduleRequestArrives(c, kind, id, due) ==
    /\ sr_call[c].kind = "none"
    /\ \A b \in Callers : b < c => sr_call[b].kind # "none"
    /\ sr_call' = [sr_call EXCEPT ![c] =
                       [kind |-> kind, id |-> id, due |-> due,
                        pc |-> "load", loaded |-> <<>>]]
    /\ UNCHANGED <<sr_file, sr_lock, sr_poll, sr_created, sr_deleted>>

\* with SCHEDULE_LOCK: schedules = _load_schedules()
HandlerLoad(c) ==
    /\ sr_call[c].pc = "load"
    /\ sr_lock = "free"
    /\ sr_lock' = holder_of(c)
    /\ sr_call' = [sr_call EXCEPT ![c].pc = "write", ![c].loaded = sr_file]
    /\ UNCHANGED <<sr_file, sr_poll, sr_created, sr_deleted>>

\* scheduler_create: schedules.append(schedule); _write_schedules; 201
CreateWrite(c) ==
    /\ sr_call[c].pc = "write"
    /\ sr_call[c].kind = "create"
    /\ sr_file' = Append(sr_call[c].loaded,
                         [id |-> sr_call[c].id, due |-> sr_call[c].due,
                          fired |-> FALSE])
    /\ sr_lock' = "free"
    /\ sr_created' = sr_created \cup {sr_call[c].id}
    /\ sr_call' = [sr_call EXCEPT ![c].pc = "returned", ![c].loaded = <<>>]
    /\ UNCHANGED <<sr_poll, sr_deleted>>

\* scheduler_delete: 404 when nothing was removed, else write and 204
DeleteWrite(c) ==
    /\ sr_call[c].pc = "write"
    /\ sr_call[c].kind = "delete"
    /\ IF Len(remaining(sr_call[c].loaded, sr_call[c].id))
              = Len(sr_call[c].loaded)
       THEN UNCHANGED <<sr_file, sr_deleted>>
       ELSE /\ sr_file' = remaining(sr_call[c].loaded, sr_call[c].id)
            /\ sr_deleted' = sr_deleted \cup {sr_call[c].id}
    /\ sr_lock' = "free"
    /\ sr_call' = [sr_call EXCEPT ![c].pc = "returned", ![c].loaded = <<>>]
    /\ UNCHANGED <<sr_poll, sr_created>>

PollLoad_mut_nolock ==
    /\ sr_poll.pc = "wait"
    /\ sr_poll' = [pc |-> "loaded", loaded |-> sr_file]
    /\ UNCHANGED <<sr_file, sr_lock, sr_call, sr_created, sr_deleted>>

\* _poll_schedules: with SCHEDULE_LOCK: schedules = _load_schedules()
PollLoad ==
    /\ sr_poll.pc = "wait"
    /\ sr_lock = "free"
    /\ sr_lock' = "poll"
    /\ sr_poll' = [pc |-> "loaded", loaded |-> sr_file]
    /\ UNCHANGED <<sr_file, sr_call, sr_created, sr_deleted>>

\* the loop of _poll_schedules over the loaded list: due schedules fire
fire_due(schedules) ==
    [k \in 1..Len(schedules) |->
        IF schedules[k].due
        THEN [schedules[k] EXCEPT !.due = FALSE, !.fired = TRUE]
        ELSE schedules[k]]

\* _poll_schedules: if updated: _write_schedules(schedules); then the loop
\* of _scheduler_loop waits for the next iteration
PollWrite ==
    /\ sr_poll.pc = "loaded"
    /\ sr_file' = IF \E k \in 1..Len(sr_poll.loaded) : sr_poll.loaded[k].due
                  THEN fire_due(sr_poll.loaded)
                  ELSE sr_file
    /\ sr_lock' = IF sr_lock = "poll" THEN "free" ELSE sr_lock
    /\ sr_poll' = [pc |-> "wait", loaded |-> <<>>]
    /\ UNCHANGED <<sr_call, sr_created, sr_deleted>>

InitScheduleRace == SrInit /\ SrOthersAtRest
NextScheduleRace ==
    /\ \/ \E c \in Callers, due \in BOOLEAN :
              ScheduleRequestArrives(c, "create", schedule_id_of(c), due)
       \/ \E c \in Callers, b \in Callers :
              ScheduleRequestArrives(c, "delete", schedule_id_of(b), FALSE)
       \/ \E c \in Callers : HandlerLoad(c)
       \/ \E c \in Callers : CreateWrite(c)
       \/ \E c \in Callers : DeleteWrite(c)
       \/ PollLoad
       \/ PollWrite
    /\ UNCHANGED SrOthers
SpecScheduleRace == InitScheduleRace /\ [][NextScheduleRace]_vars

IdsOnFile == {sr_file[k].id : k \in 1..Len(sr_file)}
\* who is between its load and its write
InCycle ==
    {holder_of(c) : c \in {b \in Callers : sr_call[b].pc = "write"}}
    \cup (IF sr_poll.pc = "loaded" THEN {"poll"} ELSE {})

\* C24: the poll and the create and delete handlers do their whole
\* load-modify-write holding SCHEDULE_LOCK, so at most one of them is
\* between its load and its write (and it is the lock's holder); a schedule
\* whose creation was answered 201 and that was not deleted is stored, also
\* after the poll has written back, and a schedule whose deletion was
\* answered 204 is not stored again by the poll.
C24_ScheduleCyclesSerialized ==
    /\ InCycle \subseteq {sr_lock}
    /\ (sr_created \ sr_deleted) \subseteq IdsOnFile
    /\ sr_deleted \cap IdsOnFile = {}

\* the poll is between its load and its write with a due schedule in the
\* list it loaded, created by a handler answered 201, while another handler
\* has arrived at its with block and waits for the lock
C24_Witness ==
    /\ sr_poll.pc = "loaded"
    /\ \E k \in 1..Len(sr_poll.loaded) :
           sr_poll.loaded[k].due /\ sr_poll.loaded[k].id \in sr_created
    /\ \E c \in Callers : sr_call[c].pc = "load"

(***************************************************************************)
(* _parse_file of src/agents/doc_agent.py.  A line and a text are          *)
(* sequences of characters; metadata is a function from keys to values.    *)
(***************************************************************************)
ascii_uppercase ==
    <<"A", "B", "C", "D", "E", "F", "G", "H", "I", "J", "K", "L", "M", "N",
      "O", "P", "Q", "R", "S", "T", "U", "V", "W", "X", "Y", "Z">>
ascii_lowercase ==
    <<"a", "b", "c", "d", "e", "f", "g", "h", "i", "j", "k", "l", "m", "n",
      "o", "p", "q", "r", "s", "t", "u", "v", "w", "x", "y", "z">>
\* str.lower() on one character
lower_char(c) ==
    IF \E k \in 1..26 : ascii_uppercase[k] = c
    THEN ascii_lowercase[CHOOSE k \in 1..26 : ascii_uppercase[k] = c]
    ELSE c
\* the class [A-Z_ ] under re.IGNORECASE
IsKeyChar(c) == IsLetter(c) \/ c = "_" \/ c = " "
\* str.strip(): spaces and line ends are whitespace
strip_whitespace(s) ==
    LET inked == {k \in 1..Len(s) : s[k] \notin {" ", "\n"}}
    IN  IF inked = {} THEN <<>>
        ELSE SubSeq(s, CHOOSE k \in inked : \A j \in inked : k <= j,
                       CHOOSE k \in inked : \A j \in inked : k >= j)

\* the position of the first ":" of the line, 0 if none
first_colon(line) ==
    IF \E k \in 1..Len(line) : line[k] = ":"
    THEN CHOOSE k \in 1..Len(line) :
             line[k] = ":" /\ \A j \in 1..(k - 1) : line[j] # ":"
    ELSE 0

\* METADATA_LINE.match(line): ^(?P<key>[A-Z_ ]+):\s*(?P<value>.+)$
\* the key is what stands before the first colon, one or more characters of
\* the class; at least one character has to follow the colon
METADATA_LINE_match(line) ==
    /\ first_colon(line) > 1
    /\ \A j \in 1..(first_colon(line) - 1) : IsKeyChar(line[j])
    /\ first_colon(line) < Len(line)

\* match.group("key").strip().lower().replace(" ", "_")
key_of(line) ==
    LET stripped == strip_whitespace(SubSeq(line, 1, first_colon(line) - 1))
    IN  [k \in 1..Len(stripped) |->
            IF stripped[k] = " " THEN "_" ELSE lower_char(stripped[k])]

\* match.group("value").strip()
value_of(line) ==
    strip_whitespace(SubSeq(line, first_colon(line) + 1, Len(line)))

\* metadata[key] = value
set_item(metadata, key, value) ==
    [k \in DOMAIN metadata \cup {key} |->
        IF k = key THEN value ELSE metadata[k]]

\* the loop "for line in lines" of _parse_file
RECURSIVE scan_lines(_, _, _)
scan_lines(lines, metadata, body_lines) ==
    IF lines = <<>> THEN [metadata |-> metadata, body_lines |-> body_lines]
    ELSE IF METADATA_LINE_match(Head(lines))
    THEN scan_lines(Tail(lines),
                    set_item(metadata, key_of(Head(lines)),
                             value_of(Head(lines))),
                    body_lines)
    ELSE scan_lines(Tail(lines), metadata,
                    Append(body_lines, Head(lines)))

\* _parse_file(path) -> (metadata, body)
parse_file(lines, decodable) ==
    IF ~decodable THEN [metadata |-> <<>>, body |-> <<>>]
    ELSE [metadata |-> scan_lines(lines, <<>>, <<>>).metadata,
          body |-> strip_whitespace(
                       join(<<"\n">>, scan_lines(lines, <<>>, <<>>).body_lines))]

\* lines of the mock document files and of free text
FileLinePool ==
    {<<"V", "e", "n", "d", "o", "r", " ", "I", "D", ":", " ", "V", "1">>,
     <<"A", "m", "o", "u", "n", "t", ":", " ", "1", "0">>,
     <<"A", "m", "o", "u", "n", "t", ":", " ", "9", "9">>,
     <<"p", "a", "i", "d", " ", "i", "n", " ", "f", "u", "l", "l">>,
     <<"P", "O", "-", "1", ":", " ", "l", "a", "t", "e">>,
     <<>>}

RECURSIVE LinesUpTo(_)
LinesUpTo(n) ==
    IF n = 0 THEN {<<>>}
    ELSE LinesUpTo(n - 1) \cup
         {Append(ls, l) : ls \in {x \in LinesUpTo(n - 1) : Len(x) = n - 1},
                          l \in FileLinePool}

PfInit ==
    /\ pf_lines \in LinesUpTo(MaxLines)
    /\ pf_decodable \in BOOLEAN
    /\ pf_pc = "file"
    /\ pf_result = [metadata |-> <<>>, body |-> <<>>]

ParseFile ==
    /\ pf_pc = "file"
    /\ pf_result' = parse_file(pf_lines, pf_decodable)
    /\ pf_pc' = "parsed"
    /\ UNCHANGED <<pf_lines, pf_decodable>>

InitParseFile == PfInit /\ PfOthersAtRest
NextParseFile ==
    /\ \/ ParseFile
    /\ UNCHANGED PfOthers
SpecParseFile == InitParseFile /\ [][NextParseFile]_vars

\* the number of leading lines that match METADATA_LINE
RECURSIVE leading_count(_)
leading_count(lines) ==
    IF lines = <<>> THEN 0
    ELSE IF METADATA_LINE_match(Head(lines))
    THEN 1 + leading_count(Tail(lines))
    ELSE 0
\* the split the statement describes: metadata from the leading matching
\* lines, body from every line after them
split_at_first_non_matching(lines) ==
    [metadata |->
         scan_lines(SubSeq(lines, 1, leading_count(lines)), <<>>, <<>>).metadata,
     body |->
         strip_whitespace(
             join(<<"\n">>,
                  SubSeq(lines, leading_count(lines) + 1, Len(lines))))]

\* C25: parsing splits the file at the first line that does not match
\* KEY: value: the leading matching lines are the metadata, every line from
\* the first non-matching one on is the body, and a later line of that shape
\* neither adds nor overwrites metadata.
C25_SplitAtFirstNonMatching ==
    (pf_pc = "parsed" /\ pf_decodable) =>
        pf_result = split_at_first_non_matching(pf_lines)

(***************************************************************************)
(* Packager.create_package (src/packager.py) for one run.  The file system *)
(* is the set of paths that exist; every operation on it is a step, and    *)
(* every step may fail with an OSError that ends the call.                 *)
(***************************************************************************)
WORK_DIR == "out/run_<run_id>"
DOCUMENTS_DIR == "out/run_<run_id>/documents"
MANIFEST_PATH == "audit_logs/<run_id>.json"
ARCHIVE_SUMMARY_PATH == "audit_logs/<run_id>_summary.md"
ZIP_PATH == "out/package_<run_id>.zip"
\* the archive once the "with zipfile.ZipFile(...)" block has closed it
ZIP_CLOSED == "out/package_<run_id>.zip (closed)"
\* the write_text calls after the document loop, in source order
package_writes ==
    <<"out/run_<run_id>/summary.md",
      "out/run_<run_id>/journal_entries.json",
      "out/run_<run_id>/documents.json",
      MANIFEST_PATH,
      "out/run_<run_id>/manifest.json",
      ARCHIVE_SUMMARY_PATH>>
copy_target(doc) == "out/run_<run_id>/documents/" \o doc.filename
InWorkDir(path) ==
    path \in {WORK_DIR, DOCUMENTS_DIR, "out/run_<run_id>/summary.md",
              "out/run_<run_id>/journal_entries.json",
              "out/run_<run_id>/documents.json",
              "out/run_<run_id>/manifest.json",
              "out/run_<run_id>/documents/a.txt",
              "out/run_<run_id>/documents/b.txt"}
\* work_dir.rglob("*") filtered by is_file()
work_files(fs) == {p \in fs : InWorkDir(p) /\ p \notin {WORK_DIR, DOCUMENTS_DIR}}

PackageDocPool == [filename : {"a.txt", "b.txt"}, found : BOOLEAN]
RECURSIVE PackageDocsUpTo(_)
PackageDocsUpTo(n) ==
    IF n = 0 THEN {<<>>}
    ELSE PackageDocsUpTo(n - 1) \cup
         {Append(ds, x) : ds \in {y \in PackageDocsUpTo(n - 1) : Len(y) = n - 1},
                          x \in PackageDocPool}

PkInit ==
    /\ pk_docs \in PackageDocsUpTo(MaxDocs)
    /\ pk_pc = "idle"
    /\ pk_next = 1
    /\ pk_fs = {}
    /\ pk_zip = {}
    /\ pk_outcome = "running"

\* work_dir.mkdir(...); documents_dir.mkdir(...)
create_package ==
    /\ pk_pc = "idle"
    /\ pk_fs' = pk_fs \cup {WORK_DIR, DOCUMENTS_DIR}
    /\ pk_pc' = "documents"
    /\ UNCHANGED <<pk_docs, pk_next, pk_zip, pk_outcome>>

\* the document loop: copyfile, or write_text when the source is missing;
\* a filename already in unique_docs is not copied again
CopyDocument ==
    /\ pk_pc = "documents"
    /\ IF pk_next > Len(pk_docs)
       THEN /\ pk_pc' = "write"
            /\ pk_next' = 1
            /\ UNCHANGED pk_fs
       ELSE /\ pk_fs' = pk_fs \cup {copy_target(pk_docs[pk_next])}
            /\ pk_next' = pk_next + 1
            /\ UNCHANGED pk_pc
    /\ UNCHANGED <<pk_docs, pk_zip, pk_outcome>>

WriteNext_mut_skip_manifest ==
    /\ pk_pc = "write"
    /\ pk_fs' = pk_fs \cup ({package_writes[pk_next]} \ {MANIFEST_PATH})
    /\ IF pk_next = Len(package_writes)
       THEN pk_pc' = "zip" /\ pk_next' = 1
       ELSE pk_pc' = pk_pc /\ pk_next' = pk_next + 1
    /\ UNCHANGED <<pk_docs, pk_zip, pk_outcome>>

\* summary.md, journal_entries.json, documents.json, the durable manifest,
\* its copy in the working directory, the archived summary
WriteNext ==
    /\ pk_pc = "write"
    /\ pk_fs' = pk_fs \cup {package_writes[pk_next]}
    /\ IF pk_next = Len(package_writes)
       THEN pk_pc' = "zip" /\ pk_next' = 1
       ELSE pk_pc' = pk_pc /\ pk_next' = pk_next + 1
    /\ UNCHANGED <<pk_docs, pk_zip, pk_outcome>>

\* zipfile.ZipFile(zip_path, "w", ...): the archive file is created
ZipOpen ==
    /\ pk_pc = "zip"
    /\ pk_fs' = pk_fs \cup {ZIP_PATH}
    /\ pk_pc' = "members"
    /\ UNCHANGED <<pk_docs, pk_next, pk_zip, pk_outcome>>

\* zf.write(file_path, ...) for one file of the working directory
ZipWrite ==
    /\ pk_pc = "members"
    /\ \E p \in work_files(pk_fs) \ pk_zip :
           pk_zip' = pk_zip \cup {p}
    /\ UNCHANGED <<pk_docs, pk_pc, pk_next, pk_fs, pk_outcome>>

\* the with block ends: the archive is closed
ZipClose ==
    /\ pk_pc = "members"
    /\ work_files(pk_fs) \subseteq pk_zip
    /\ pk_fs' = pk_fs \cup {ZIP_CLOSED}
    /\ pk_pc' = "rmtree"
    /\ UNCHANGED <<pk_docs, pk_next, pk_zip, pk_outcome>>

\* shutil.rmtree(work_dir), then return the three paths
RmtreeAndReturn ==
    /\ pk_pc = "rmtree"
    /\ pk_fs' = {p \in pk_fs : ~InWorkDir(p)}
    /\ pk_pc' = "done"
    /\ pk_outcome' = "returned"
    /\ UNCHANGED <<pk_docs, pk_next, pk_zip>>

\* an OSError from mkdir, copyfile, write_text, ZipFile or rmtree
PackageRaises ==
    /\ pk_pc \in {"idle", "documents", "write", "zip", "members", "rmtree"}
    /\ pk_pc' = "done"
    /\ pk_outcome' = "raised"
    /\ UNCHANGED <<pk_docs, pk_next, pk_fs, pk_zip>>

InitPackage == PkInit /\ PkOthersAtRest
NextPackage ==
    /\ \/ create_package
       \/ CopyDocument
       \/ WriteNext
       \/ ZipOpen
       \/ ZipWrite
       \/ ZipClose
       \/ RmtreeAndReturn
       \/ PackageRaises
    /\ UNCHANGED PkOthers
SpecPackage == InitPackage /\ [][NextPackage]_vars

WorkDirExists == \E p \in pk_fs : InWorkDir(p)

\* C26: the side effects of create_package come in a fixed order: whenever
\* the archive exists the durable manifest audit_logs/<run_id>.json exists,
\* the working directory is only deleted once the archive is complete
\* (every file of the working directory, the manifest copy included, is a
\* member and the archive is closed), and when the call returns the
\* working directory is gone.
C26_ManifestThenZipThenCleanup ==
    /\ ZIP_PATH \in pk_fs => MANIFEST_PATH \in pk_fs
    /\ (pk_pc \in {"rmtree", "done"} /\ ~WorkDirExists /\ pk_fs # {}) =>
           /\ ZIP_CLOSED \in pk_fs
           /\ "out/run_<run_id>/manifest.json" \in pk_zip
    /\ WorkDirExists /\ ZIP_CLOSED \in pk_fs => work_files(pk_fs) \subseteq pk_zip
    /\ pk_outcome = "returned" =>
           /\ ~WorkDirExists
           /\ {ZIP_PATH, ZIP_CLOSED, MANIFEST_PATH} \subseteq pk_fs

\* the call has returned for a run with a document: archive and manifest
\* exist, the working directory does not
C26_Witness ==
    /\ pk_outcome = "returned"
    /\ pk_docs # <<>>
    /\ ZIP_PATH \in pk_fs
    /\ "out/run_<run_id>/documents/a.txt" \in pk_zip

(***************************************************************************)
(* The run table after the sentinel (SpecWorker)                           *)
(***************************************************************************)
SentinelPut(r) == Count(put_log[r], Sentinel) > 0

\* C27: once the worker of a run has put the None sentinel, a lookup of
\* the run in RUN_QUEUES finds no queue (the stream request is answered
\* 404), so no consumer can be handed a queue that will receive nothing
\* more.
C27_NoQueueAfterSentinel ==
    \A r \in Runs : SentinelPut(r) => ~RUN_QUEUES[r]

(***************************************************************************)
(* A run fired by the scheduler: _trigger_scheduled_run and _worker of     *)
(* src/app.py, _infer_intent of src/nlu/intent_parser.py, and              *)
(* Orchestrator.execute for the plan the run gets                          *)
(***************************************************************************)
\* word in text
contains(text, word) ==
    \E i \in 1..(Len(text) - Len(word) + 1) :
        SubSeq(text, i, i + Len(word) - 1) = word
\* str.lower()
lowered(s) == [k \in 1..Len(s) |-> lower_char(s[k])]

infer_intent_mut_audit(lower_text) ==
    IF contains(lower_text, <<"a", "u", "d", "i", "t">>) THEN "generate_package" ELSE "general_query"

\* _infer_intent(lower_text, actions)
infer_intent(lower_text) ==
    IF contains(lower_text, <<"d", "o", "w", "n", "l", "o", "a", "d">>) \/ contains(lower_text, <<"e", "x", "p", "o", "r", "t">>)
    THEN "download_package"
    ELSE IF contains(lower_text, <<"s", "e", "n", "d">>) /\ contains(lower_text, <<"p", "a", "c", "k", "a", "g", "e">>)
    THEN "send_package"
    ELSE IF contains(lower_text, <<"s", "u", "m", "m", "a", "r">>) /\ ~contains(lower_text, <<"p", "a", "c", "k", "a", "g", "e">>)
    THEN "get_summary"
    ELSE IF \/ contains(lower_text, <<"p", "r", "e", "p", "a", "r", "e">>)
            \/ contains(lower_text, <<"g", "e", "n", "e", "r", "a", "t", "e">>)
            \/ contains(lower_text, <<"p", "a", "c", "k", "a", "g", "e">>)
    THEN "generate_package"
    ELSE IF contains(lower_text, <<"n", "o", "t", "i", "f", "y">>) THEN "send_package"
    ELSE IF contains(lower_text, <<"s", "h", "a", "r", "e">>) THEN "send_package"
    ELSE "general_query"

\* parse_intent(text, use_llm=False) with the intent label of the payload
parsed_intent_of(nl_text) ==
    [intent |-> infer_intent(lowered(strip(nl_text))),
     entities |-> parse_intent(nl_text, FALSE, "absent").entities]

\* f"Run a scheduled audit for vendor {vendor_id}."
scheduled_text(vendor_id) ==
    <<"R", "u", "n", " ", "a", " ", "s", "c", "h", "e", "d", "u", "l", "e", "d", " ", "a", "u", "d", "i", "t", " ", "f", "o", "r", " ", "v", "e", "n", "d", "o", "r", " ">>
    \o vendor_id \o <<".">>

\* str(schedule.get("vendor_id") or "Unknown Vendor").strip() or "Unknown Vendor"
vendor_of(vendor_id) ==
    IF strip(vendor_id) = <<>> THEN <<"U", "n", "k", "n", "o", "w", "n", " ", "V", "e", "n", "d", "o", "r">>
    ELSE strip(vendor_id)

\* _collect_identifiers: the values of the three buckets, each once
collect_identifiers(entities) ==
    LET values == entities.vendor_ids \o entities.invoice_ids \o entities.po_ids
        identifiers[k \in 0..Len(values)] ==
            IF k = 0 THEN <<>>
            ELSE IF values[k] # <<>> /\ ~InSeq(values[k], identifiers[k - 1])
            THEN Append(identifiers[k - 1], values[k])
            ELSE identifiers[k - 1]
    IN  identifiers[Len(values)]

\* vendor ids of stored schedules
ScheduledVendorPool ==
    {<<"V", "E", "N", "D", "-", "1">>, <<"V", "E", "N", "D", "-", "4", "2">>, <<"v", "e", "n", "d", "-", "7">>, <<"V", "1">>,
     <<"E", "x", "p", "o", "r", "t", " ", "C", "o">>,
     <<"P", "r", "e", "p", "a", "r", "e", " ", "L", "t", "d">>,
     <<"S", "e", "n", "d", " ", "P", "a", "c", "k", "a", "g", "e">>,
     <<"S", "u", "m", "m", "a", "r", "y", " ", "I", "n", "c">>}

TgInit ==
    /\ tg_vendor_id \in ScheduledVendorPool
    /\ tg_pc = "idle"
    /\ tg_parsed = NotCalled
    /\ tg_plan = <<>>
    /\ tg_notifications = <<>>
    /\ tg_outcome = "none"
    /\ tg_notify_failed = FALSE

\* _trigger_scheduled_run: the text is parsed and planned, the worker
\* thread is started and scheduler_triggered is appended
scheduled_run_triggered ==
    /\ tg_pc = "idle"
    /\ tg_parsed' = parsed_intent_of(scheduled_text(vendor_of(tg_vendor_id)))
    /\ tg_plan' = plan_tasks(Intent(TRUE, tg_parsed'.intent, FALSE), FALSE, "absent").plan
    /\ tg_notifications' = Append(tg_notifications, "scheduler_triggered")
    /\ tg_pc' = "started"
    /\ UNCHANGED <<tg_vendor_id, tg_outcome, tg_notify_failed>>
    /\ UNCHANGED exVars

\* _worker: _persist_conversation of the user message, before the try
\* block, raises: the thread ends
persist_conversation_raises ==
    /\ tg_pc = "started"
    /\ tg_pc' = "done"
    /\ tg_outcome' = "died"
    /\ UNCHANGED <<tg_vendor_id, tg_parsed, tg_plan, tg_notifications, tg_notify_failed>>
    /\ UNCHANGED exVars

\* _worker calls orchestrator.execute(parsed_intent, plan, run_id=run_id),
\* which builds plan_list, identifiers and the context
worker_calls_execute ==
    /\ tg_pc = "started"
    /\ tg_pc' = "executing"
    /\ ex_pc' = "running"
    /\ ex_plan' = TasksOf(tg_plan)
    /\ ex_dry_run' = FALSE
    /\ ex_step' = 1
    /\ ex_context' = [run_id |-> "run_id", intent |-> tg_parsed,
                      plan |-> TasksOf(tg_plan),
                      identifiers |-> collect_identifiers(tg_parsed.entities)]
    /\ UNCHANGED <<ex_trace, ex_skipped, ex_manifests, ex_raised_at>>
    /\ UNCHANGED <<tg_vendor_id, tg_parsed, tg_plan, tg_notifications, tg_outcome,
                   tg_notify_failed>>

\* the entries _record_run_notifications appends for the result
run_notifications(context) ==
    <<"run_complete">>
    \o IF Get(context, "anomalies", <<>>) # <<>> THEN <<"anomaly_alert">> ELSE <<>>

record_run_notifications_mut_alert ==
    /\ tg_pc = "executing"
    /\ ex_pc = "completed"
    /\ tg_notifications' = tg_notifications \o <<"run_complete", "anomaly_alert">>
    /\ tg_outcome' = "complete"
    /\ tg_pc' = "done"
    /\ UNCHANGED <<tg_vendor_id, tg_parsed, tg_plan, tg_notify_failed>>
    /\ UNCHANGED exVars

\* execute returned: the result is recorded, _record_run_notifications
\* appends its entries and "complete" is enqueued
record_run_notifications ==
    /\ tg_pc = "executing"
    /\ ex_pc = "completed"
    /\ tg_notifications' = tg_notifications \o run_notifications(ex_context)
    /\ tg_outcome' = "complete"
    /\ tg_pc' = "done"
    /\ UNCHANGED <<tg_vendor_id, tg_parsed, tg_plan, tg_notify_failed>>
    /\ UNCHANGED exVars

\* an append of _record_run_notifications raises after k entries went in:
\* the worker logs it and goes on
record_run_notifications_raises ==
    /\ tg_pc = "executing"
    /\ ex_pc = "completed"
    /\ \E k \in 0..(Len(run_notifications(ex_context)) - 1) :
          tg_notifications' = tg_notifications \o SubSeq(run_notifications(ex_context), 1, k)
    /\ tg_notify_failed' = TRUE
    /\ tg_outcome' = "complete"
    /\ tg_pc' = "done"
    /\ UNCHANGED <<tg_vendor_id, tg_parsed, tg_plan>>
    /\ UNCHANGED exVars

\* execute raised: except Exception logs and enqueues "error"
worker_except ==
    /\ tg_pc = "executing"
    /\ ex_pc = "failed"
    /\ tg_outcome' = "error"
    /\ tg_pc' = "done"
    /\ UNCHANGED <<tg_vendor_id, tg_parsed, tg_plan, tg_notifications, tg_notify_failed>>
    /\ UNCHANGED exVars

\* everything but tgVars and exVars
TgExOthers ==
    <<rcVars, wkVars, idVars, nkVars, scVars, qjVars, rrVars, smVars,
      piVars, ptVars, simVars, ssVars, lkVars, nrVars, srVars, pfVars,
      pkVars>>
TgExOthersAtRest ==
    /\ RcAtRest
    /\ WkAtRest
    /\ IdAtRest
    /\ NkAtRest
    /\ ScAtRest
    /\ QjAtRest
    /\ RrAtRest
    /\ SmAtRest
    /\ PiAtRest
    /\ PtAtRest
    /\ SimAtRest
    /\ SsAtRest
    /\ LkAtRest
    /\ NrAtRest
    /\ SrAtRest
    /\ PfAtRest
    /\ PkAtRest

InitScheduledRun == TgInit /\ ExAtRest /\ TgExOthersAtRest
\* a step of execute leaves the worker where it is
ExecuteStep(Step) == Step /\ UNCHANGED tgVars
NextScheduledRun ==
    /\ \/ scheduled_run_triggered
       \/ persist_conversation_raises
       \/ worker_calls_execute
       \/ ExecuteStep(StepFindDocs)
       \/ ExecuteStep(StepQueryJournal)
       \/ ExecuteStep(StepReconcile)
       \/ ExecuteStep(StepSummary)
       \/ ExecuteStep(StepPreparePackage)
       \/ ExecuteStep(StepNoHandler)
       \/ ExecuteStep(TaskRaises)
       \/ ExecuteStep(WriteManifest)
       \/ record_run_notifications
       \/ record_run_notifications_raises
       \/ worker_except
    /\ UNCHANGED TgExOthers
\* the steps the worker thread takes when nothing outside it fails
ThreadRuns ==
    /\ \/ worker_calls_execute
       \/ ExecuteStep(StepFindDocs)
       \/ ExecuteStep(StepQueryJournal)
       \/ ExecuteStep(StepReconcile)
       \/ ExecuteStep(StepSummary)
       \/ ExecuteStep(StepPreparePackage)
       \/ ExecuteStep(StepNoHandler)
       \/ ExecuteStep(WriteManifest)
       \/ record_run_notifications
       \/ worker_except
    /\ UNCHANGED TgExOthers
\* a started worker thread is scheduled until it ends
SpecScheduledRun ==
    InitScheduledRun /\ [][NextScheduledRun]_vars /\ WF_vars(ThreadRuns)

(***************************************************************************)
(* Vocabulary of the scheduled run claim                                   *)
(***************************************************************************)
\* VEND-<digits>
VendForm(vendor_id) ==
    /\ Len(vendor_id) > 5
    /\ SubSeq(vendor_id, 1, 5) = VENDOR_PATTERN
    /\ \A k \in 6..Len(vendor_id) : IsDigit(vendor_id[k])
HandlersRun == {ex_trace[k].handler : k \in 1..Len(ex_trace)}
Notified(type) == \E k \in 1..Len(tg_notifications) : tg_notifications[k] = type

====
